-------------------------- MODULE ListenersProofs --------------------------
(***************************************************************************)
(* For any documents, calls and troubles:                                  *)
(*                                                                         *)
(*  - the assertions of the online state hold, the idle timer only stops a *)
(*    stream nobody needs, and a read that waits has something that ends   *)
(*    its wait.  A listen behind a failure sets no timer, which is right   *)
(*    because a failure leaves the client offline, where nobody waits; and *)
(*    a listen on a stream under way sets none either, which is right      *)
(*    because such a stream has one, has been heard of or has failed,      *)
(*    unless its timer was orphaned (Connected);                           *)
(*                                                                         *)
(*  - a read is answered once, because an error is the last event of a     *)
(*    listener that is gone, and a listener misses no change (Delivered);  *)
(*                                                                         *)
(*  - the aggregator's counts are those of the requests without an answer, *)
(*    on a stream that is open (Counted);                                  *)
(*                                                                         *)
(*  - what passes for synchronized is not older than the call it is told   *)
(*    to: a count of zero means that no answer is on its way, so what is   *)
(*    heard then was said behind the answer to the present listen (Recent).*)
(***************************************************************************)
EXTENDS Listeners, FiniteSetTheorems, TLAPS

OwnListeners ==
    /\ listening \in [Docs -> SUBSET Listeners]
    /\ \A l \in Listeners, d \in Docs : l \in listening[d] => Doc[l] = d

Connected ==
    /\ OwnListeners
    /\ current \subseteq Docs
    /\ state \in {"Unknown", "Online", "Offline"}
    /\ OnlineStateAgrees
    /\ StreamIfNeeded
    /\ failed => state = "Offline"
    /\ conn \in Started => state # "Unknown" \/ timer \/ orphaned
    /\ state = "Offline" => \A l \in Listeners : l \in listening[Doc[l]] => l \in raised

----------------------------------------------------------------------------
(* The online state, an action at a time. *)

LEMMA InitConnected ==
  Init => Connected
  BY DEF Init, Connected, OwnListeners, OnlineStateAgrees, StreamIfNeeded, Started, Targets

LEMMA GoOfflineConnects ==
  ASSUME Connected, GoOffline, UNCHANGED listening, timer' = FALSE,
         idle' => idle /\ conn' = conn, Targets(listening) # {} => conn' \in Started
  PROVE  Connected'
  BY ListenersAssumption
  DEF Connected, OwnListeners, OnlineStateAgrees, StreamIfNeeded, Targets, GoOffline

LEMMA FirstListens ==
  ASSUME Connected, NEW d \in Docs, Listen(d), Targets(listening') # {},
         current' \subseteq current
  PROVE  /\ OnlineStateAgrees' /\ StreamIfNeeded'
         /\ failed' => state' = "Offline"
         /\ conn' \in Started => state' # "Unknown" \/ timer' \/ orphaned'
         /\ state' = "Offline" => state = "Offline"
        /\ state' \in {"Unknown", "Online", "Offline"}
  <1>1. CASE conn \notin Started
    <2>1. conn' \in Started /\ idle' = FALSE /\ failed' = failed
          /\ state' = (IF failed THEN state ELSE "Unknown") /\ timer' = (timer \/ ~failed)
      BY <1>1 DEF Listen, Closed, Started
    <2>. QED
      BY <2>1, <1>1 DEF Connected, OnlineStateAgrees, StreamIfNeeded, Targets
  <1>2. CASE conn \in Started
    <2>1. conn' = conn /\ UNCHANGED online /\ (idle' = FALSE \/ (conn # "open" /\ idle' = idle))
      BY <1>2 DEF Listen, online
    <2>. QED
      BY <2>1, <1>2 DEF Connected, OnlineStateAgrees, StreamIfNeeded, Targets, online
  <1>. QED
    BY <1>1, <1>2

LEMMA Called ==
  ASSUME Connected, NEW l \in Listeners, AddQueryListener(l)
  PROVE  Connected'
  <1>. DEFINE d == Doc[l]
  <1>1. d \in Docs /\ listening' = [listening EXCEPT ![d] = @ \cup {l}]
    BY ListenersAssumption DEF AddQueryListener
  <1>2. OwnListeners' /\ Targets(listening') = Targets(listening) \cup {d}
    BY <1>1 DEF Connected, OwnListeners, Targets
  <1>3. /\ current' \subseteq current /\ raised \subseteq raised'
        /\ state' = "Offline" => l \in raised'
    BY DEF AddQueryListener, ShouldRaiseInitialEvent
  <1>4. /\ OnlineStateAgrees' /\ StreamIfNeeded'
        /\ failed' => state' = "Offline"
        /\ conn' \in Started => state' # "Unknown" \/ timer' \/ orphaned'
        /\ state' = "Offline" => state = "Offline"
        /\ state' \in {"Unknown", "Online", "Offline"}
    <2>1. CASE listening[d] = {}
      BY <2>1, <1>1, <1>2, <1>3, FirstListens DEF AddQueryListener
    <2>2. CASE listening[d] # {}
      <3>1. UNCHANGED <<online, stream, current>>
        BY <2>2 DEF AddQueryListener
      <3>2. Targets(listening') = Targets(listening)
        BY <2>2, <1>1, <1>2 DEF Targets
      <3>. QED
        BY <3>1, <3>2 DEF Connected, OnlineStateAgrees, StreamIfNeeded, online, stream
    <2>. QED
      BY <2>1, <2>2
  <1>. QED
    BY <1>1, <1>2, <1>3, <1>4 DEF Connected, OwnListeners

LEMMA Removed ==
  ASSUME Connected, NEW l \in Listeners, RemoveQueryListener(l)
  PROVE  Connected'
  <1>. DEFINE d == Doc[l]
              rest == [listening EXCEPT ![d] = @ \ {l}]
  <1>1. d \in Docs /\ listening' = rest /\ UNCHANGED <<current, raised>>
    BY ListenersAssumption DEF RemoveQueryListener
  <1>2. OwnListeners' /\ Targets(rest) \subseteq Targets(listening)
    BY <1>1 DEF Connected, OwnListeners, Targets
  <1>3. /\ state' = "Offline" => state = "Offline"
        /\ state' \in {"Unknown", "Online", "Offline"}
    BY DEF Connected, RemoveQueryListener, StopListening, online
  <1>4. /\ OnlineStateAgrees' /\ StreamIfNeeded'
        /\ failed' => state' = "Offline"
        /\ conn' \in Started => state' # "Unknown" \/ timer' \/ orphaned'
    <2>. USE <1>1, <1>2 DEF Connected, OnlineStateAgrees, StreamIfNeeded
    <2>1. CASE UNCHANGED <<online, stream>>
      BY <2>1 DEF online, stream
    <2>2. CASE StopListening(d, Targets(rest))
      <3>1. CASE conn = "open"
        <4>1. conn' = conn /\ UNCHANGED online /\ (idle' <=> Targets(rest) = {})
          BY <2>2, <3>1 DEF StopListening
        <4>. QED
          BY <4>1, <3>1 DEF online, Started
      <3>2. CASE conn # "open" /\ Targets(rest) = {}
        <4>1. conn' = conn /\ idle' = idle /\ state' = "Unknown"
              /\ failed' = FALSE /\ timer' = FALSE /\ (orphaned' <=> conn \in Started)
          BY <2>2, <3>2 DEF StopListening, stream
        <4>. QED
          BY <4>1, <3>2
      <3>3. CASE conn # "open" /\ Targets(rest) # {}
        <4>1. UNCHANGED <<online, stream>>
          BY <2>2, <3>3 DEF StopListening
        <4>. QED
          BY <2>1, <4>1
      <3>. QED
        BY <3>1, <3>2, <3>3
    <2>. QED
      BY <2>1, <2>2 DEF RemoveQueryListener
  <1>. QED
    BY <1>1, <1>2, <1>3, <1>4 DEF Connected, OwnListeners

LEMMA StreamLives ==
  ASSUME Connected, Streaming
  PROVE  Connected'
  <1>. USE DEF Connected, OnlineStateAgrees, StreamIfNeeded, OwnListeners, Started
  <1>1. CASE OnWatchStreamOpen
    BY <1>1 DEF OnWatchStreamOpen, views, online
  <1>2. CASE OnWatchStreamBroken
    <2>1. UNCHANGED listening /\ idle' = FALSE
      BY <1>2 DEF OnWatchStreamBroken, Closed
    <2>2. CASE Targets(listening) = {}
      BY <1>2, <2>1, <2>2 DEF OnWatchStreamBroken, Announce
    <2>3. CASE Targets(listening) # {} /\ state = "Online"
      BY <1>2, <2>1, <2>3 DEF OnWatchStreamBroken, Announce
    <2>4. CASE Targets(listening) # {} /\ state # "Online"
      <3>1. GoOffline /\ conn' = "backoff" /\ timer' = FALSE
        BY <1>2, <2>4 DEF OnWatchStreamBroken
      <3>. QED
        BY <2>1, <3>1, GoOfflineConnects
    <2>. QED
      BY <2>2, <2>3, <2>4
  <1>3. CASE BackoffElapsed
    BY <1>3 DEF BackoffElapsed, views, online
  <1>4. CASE IdleTimeout
    BY <1>4 DEF IdleTimeout, Announce, Closed
  <1>5. CASE OnConnectivityChange
    BY <1>5 DEF OnConnectivityChange, Announce, Closed
  <1>6. CASE OnlineStateTimeout
    <2>1. GoOffline /\ UNCHANGED <<listening, idle, conn>> /\ timer' = FALSE
      BY <1>6 DEF OnlineStateTimeout, stream
    <2>. QED
      BY <2>1, GoOfflineConnects
  <1>. QED
    BY <1>1, <1>2, <1>3, <1>4, <1>5, <1>6 DEF Streaming

LEMMA Spoken ==
  ASSUME Connected, OnWatchStreamChange
  PROVE  Connected'
  <1>1. state' = "Online" /\ failed' = FALSE /\ timer' = FALSE /\ UNCHANGED <<conn, idle>>
    BY DEF OnWatchStreamChange, OnAdded, OnRemoved, OnCurrent, OnDocument, OnRejected,
           OnSnapshot, Heard
  <1>2. OwnListeners' /\ Targets(listening') \subseteq Targets(listening)
    BY DEF OnWatchStreamChange, OnAdded, OnRemoved, OnCurrent, OnDocument, OnRejected,
           OnSnapshot, views, Connected, OwnListeners, Targets
  <1>3. current' \subseteq Docs
    BY DEF OnWatchStreamChange, OnAdded, OnRemoved, OnCurrent, OnDocument, OnRejected,
           OnSnapshot, views, Connected
  <1>. QED
    BY <1>1, <1>2, <1>3 DEF Connected, OnlineStateAgrees, StreamIfNeeded

LEMMA NextConnected ==
  ASSUME Connected, [Next]_vars
  PROVE  Connected'
  <1>1. CASE \E l \in Listeners : AddQueryListener(l) \/ RemoveQueryListener(l)
    BY <1>1, Called, Removed
  <1>2. CASE Streaming
    BY <1>2, StreamLives
  <1>3. CASE OnWatchStreamChange
    BY <1>3, Spoken
  <1>4. CASE (\E l \in Listeners : EventRuns(l)) \/ Backend \/ UNCHANGED vars
    <2>1. UNCHANGED <<views, online, conn, idle>>
      BY <1>4 DEF EventRuns, Backend, BackendWatches, BackendRejects, BackendForgets,
                  BackendReads, DocumentChanges, vars, stream
    <2>. QED
      BY <2>1 DEF views, online, Connected, OwnListeners, OnlineStateAgrees, StreamIfNeeded
  <1>. QED
    BY <1>1, <1>2, <1>3, <1>4 DEF Next, Calls

THEOREM AlwaysConnected == Spec => []Connected
  BY InitConnected, NextConnected, PTL DEF Spec

\* The assertions of OnlineStateTracker: its timer runs only while it is Unknown
\* whether the backend can be reached.
THEOREM OnlineStateHolds == Spec => []OnlineStateAgrees
  <1>1. Connected => OnlineStateAgrees
    BY DEF Connected
  <1>. QED
    BY <1>1, AlwaysConnected, PTL

\* A stream is stopped only when it has no targets, and there is one if it has.
THEOREM StreamThere == Spec => []StreamIfNeeded
  <1>1. Connected => StreamIfNeeded
    BY DEF Connected
  <1>. QED
    BY <1>1, AlwaysConnected, PTL

\* A read that waits waits for a backend that has spoken, or for a timer; or its
\* stream's timer was orphaned.
THEOREM WaitsEnd == Spec => []SomethingEndsTheWait
  <1>1. Connected => SomethingEndsTheWait
    <2>. SUFFICES ASSUME Connected, NEW l \in Gets, l \in listening[Doc[l]] \ raised
                  PROVE  state = "Online" \/ timer \/ orphaned
      BY DEF SomethingEndsTheWait
    <2>1. l \in Listeners /\ Doc[l] \in Docs
      BY ListenersAssumption
    <2>2. conn \in Started /\ state # "Offline"
      BY <2>1 DEF Connected, StreamIfNeeded, Targets
    <2>. QED
      BY <2>2 DEF Connected
  <1>. QED
    BY <1>1, AlwaysConnected, PTL

----------------------------------------------------------------------------
(* Types of the data. *)

Kinds   == {"added", "removed", "current", "document", "rejected", "snapshot"}
Asks    == [listen : BOOLEAN, doc : Docs]
Says    == [kind : Kinds, doc : Docs, version : Nat]
Entries == [pending : Int, current : BOOLEAN, changed : BOOLEAN]

Data ==
    /\ docs \in [Docs -> Nat] /\ cache \in [Docs -> Nat] /\ fresh \in [Docs -> Nat]
    /\ up \in Seq(Asks) /\ down \in Seq(Says)
    /\ target \in [Docs -> Entries]

LEMMA RequestType ==
  ASSUME NEW d \in Docs
  PROVE  Request(TRUE, d) \in Asks /\ Request(FALSE, d) \in Asks
  BY DEF Request, Asks

LEMMA MessageType ==
  ASSUME NEW d \in Docs
  PROVE  \A kind \in Kinds : Message(kind, d) \in Says
  BY DEF Message, Says

LEMMA UpdateType ==
  ASSUME NEW d \in Docs, NEW version \in Nat
  PROVE  Update(d, version) \in Says
  BY DEF Update, Says, Kinds

LEMMA NewType == NewTarget \in Entries
  BY DEF NewTarget, Entries

LEMMA Recounted ==
  ASSUME NEW t \in [Docs -> Entries], NEW d \in Docs, NEW n \in Int
  PROVE  [t EXCEPT ![d].pending = n] \in [Docs -> Entries]
  <1>1. [t[d] EXCEPT !.pending = n] \in Entries
    BY DEF Entries
  <1>. QED
    BY <1>1

LEMMA Remade ==
  ASSUME NEW t \in [Docs -> Entries], NEW d \in Docs, NEW n \in Int, NEW b \in BOOLEAN
  PROVE  [t EXCEPT ![d].pending = n, ![d].changed = b] \in [Docs -> Entries]
  <1>1. [[t[d] EXCEPT !.pending = n] EXCEPT !.changed = b] \in Entries
    BY DEF Entries
  <1>2. [t EXCEPT ![d].pending = n, ![d].changed = b] =
            [t EXCEPT ![d] = [[t[d] EXCEPT !.pending = n] EXCEPT !.changed = b]]
    OBVIOUS
  <1>. QED
    BY <1>1, <1>2

LEMMA InitData ==
  Init => Data
  BY NewType, ListenersAssumption DEF Init, Data, Versions

LEMMA HeadOfUp ==
  ASSUME Data, up # <<>>
  PROVE  Head(up).doc \in Docs /\ Tail(up) \in Seq(Asks)
  <1>1. Head(up) \in Asks
    BY DEF Data
  <1>. QED
    BY <1>1 DEF Data, Asks

LEMMA HeadOfDown ==
  ASSUME Data, down # <<>>
  PROVE  Head(down).doc \in Docs /\ Head(down).version \in Nat /\ Tail(down) \in Seq(Says)
  <1>1. Head(down) \in Says
    BY DEF Data
  <1>. QED
    BY <1>1 DEF Data, Says

LEMMA SendData ==
  ASSUME Data, NEW d \in Docs, NEW listen \in BOOLEAN, Send(listen, d)
  PROVE  up' \in Seq(Asks) /\ target' \in [Docs -> Entries]
  <1>1. Request(listen, d) \in Asks
    BY DEF Request, Asks
  <1>2. target[d].pending + 1 \in Int
    BY DEF Data, Entries
  <1>3. target' = [target EXCEPT ![d].pending = target[d].pending + 1]
    BY DEF Send
  <1>4. target' \in [Docs -> Entries]
    BY <1>2, <1>3, Recounted DEF Data
  <1>5. up' \in Seq(Asks)
    BY <1>1 DEF Send, Data
  <1>. QED
    BY <1>4, <1>5

LEMMA ClosedData ==
  ASSUME Data, Closed, UNCHANGED <<docs, cache>>
  PROVE  Data'
  BY NewType DEF Data, Closed

LEMMA CallsData ==
  ASSUME Data, Calls
  PROVE  Data'
  <1>1. UNCHANGED <<docs, cache>>
    BY DEF Calls, AddQueryListener, RemoveQueryListener, EventRuns, store
  <1>2. ASSUME NEW l \in Listeners, AddQueryListener(l) PROVE Data'
    <2>1. Doc[l] \in Docs
      BY ListenersAssumption
    <2>2. CASE listening[Doc[l]] # {}
      BY <1>1, <1>2, <2>2 DEF AddQueryListener, stream, Data
    <2>3. CASE Listen(Doc[l]) /\ conn \notin Started
      BY <1>1, <2>3, ClosedData DEF Listen
    <2>4. CASE Listen(Doc[l]) /\ conn \in Started
      <3>1. UNCHANGED <<fresh, down>>
        BY <2>4 DEF Listen
      <3>2. Send(TRUE, Doc[l]) \/ UNCHANGED <<target, up>>
        BY <2>4 DEF Listen
      <3>. QED
        BY <1>1, <2>1, <3>1, <3>2, SendData DEF Data
    <2>. QED
      BY <1>2, <2>2, <2>3, <2>4 DEF AddQueryListener
  <1>3. ASSUME NEW l \in Listeners, RemoveQueryListener(l) PROVE Data'
    <2>1. Doc[l] \in Docs
      BY ListenersAssumption
    <2>2. CASE UNCHANGED stream
      BY <1>1, <2>2 DEF stream, Data
    <2>3. CASE Send(FALSE, Doc[l]) /\ UNCHANGED <<fresh, down>>
      BY <1>1, <2>1, <2>3, SendData DEF Data
    <2>. QED
      BY <1>3, <2>2, <2>3 DEF RemoveQueryListener, StopListening
  <1>4. ASSUME NEW l \in Listeners, EventRuns(l) PROVE Data'
    BY <1>4 DEF EventRuns, store, stream, Data
  <1>. QED
    BY <1>2, <1>3, <1>4 DEF Calls

LEMMA StreamingData ==
  ASSUME Data, OwnListeners, Streaming
  PROVE  Data'
  <1>1. CASE OnWatchStreamOpen
    <2>1. UNCHANGED <<docs, cache, fresh, down>>
      BY <1>1 DEF OnWatchStreamOpen, store
    <2>2. Cardinality(Targets(listening)) \in Nat
      BY ListenersAssumption, FS_Subset, FS_CardinalityType DEF Targets
    <2>3. up' \in Seq(Asks)
      <3>1. PICK order \in [1..Cardinality(Targets(listening)) -> Targets(listening)] :
                up' = [i \in DOMAIN order |-> Request(TRUE, order[i])]
        BY <1>1 DEF OnWatchStreamOpen
      <3>2. \A i \in DOMAIN order : Request(TRUE, order[i]) \in Asks
        BY RequestType DEF Targets
      <3>3. up' \in [1..Cardinality(Targets(listening)) -> Asks]
        BY <3>1, <3>2
      <3>. QED
        BY <2>2, <3>3
    <2>4. target' \in [Docs -> Entries]
      <3>1. \A d \in Docs : \A n \in Int : [target[d] EXCEPT !.pending = n] \in Entries
        BY DEF Data, Entries
      <3>2. \A d \in Docs : target[d].pending \in Int
        BY DEF Data, Entries
      <3>3. \A d \in Docs : target[d].pending + (IF d \in Targets(listening) THEN 1 ELSE 0) \in Int
        BY <3>2
      <3>4. target' = [d \in Docs |-> [target[d] EXCEPT !.pending =
                          target[d].pending + (IF d \in Targets(listening) THEN 1 ELSE 0)]]
        BY <1>1 DEF OnWatchStreamOpen
      <3>. QED
        BY <3>1, <3>3, <3>4
    <2>. QED
      BY <2>1, <2>3, <2>4 DEF Data
  <1>2. CASE OnWatchStreamBroken \/ IdleTimeout \/ OnConnectivityChange
    BY <1>2, ClosedData DEF OnWatchStreamBroken, IdleTimeout, OnConnectivityChange, store
  <1>3. CASE BackoffElapsed \/ OnlineStateTimeout
    BY <1>3 DEF BackoffElapsed, OnlineStateTimeout, store, stream, Data
  <1>. QED
    BY <1>1, <1>2, <1>3 DEF Streaming

LEMMA ChangesData ==
  ASSUME Data, OnWatchStreamChange
  PROVE  Data'
  <1>. DEFINE d == Head(down).doc
  <1>1. /\ down # <<>> /\ down' = Tail(down) /\ UNCHANGED <<docs, up>>
    BY DEF OnWatchStreamChange, OnAdded, OnRemoved, OnCurrent, OnDocument, OnRejected,
           OnSnapshot, Heard
  <1>2. d \in Docs /\ Head(down).version \in Nat /\ down' \in Seq(Says)
    BY <1>1, HeadOfDown
  <1>3. cache' \in [Docs -> Nat] /\ fresh' \in [Docs -> Nat]
    <2>1. CASE OnSnapshot
      BY <2>1 DEF OnSnapshot, Data
    <2>2. CASE OnDocument
      <3>. HIDE DEF d
      <3>1. cache' = cache /\ fresh' \in {fresh, [fresh EXCEPT ![d] = Head(down).version]}
        BY <2>2 DEF OnDocument, store, d
      <3>. QED
        BY <1>2, <3>1 DEF Data
    <2>3. CASE OnAdded \/ OnRemoved \/ OnCurrent \/ OnRejected
      BY <2>3 DEF OnAdded, OnRemoved, OnCurrent, OnRejected, store, Data
    <2>. QED
      BY <2>1, <2>2, <2>3 DEF OnWatchStreamChange
  <1>4. target' \in [Docs -> Entries]
    <2>. HIDE DEF d
    <2>1. target[d] \in Entries /\ target[d].pending \in Int
      BY <1>2 DEF Data, Entries
    <2>2. \A c \in Docs : target[c] \in Entries /\ target[c].changed \in BOOLEAN
      BY DEF Data, Entries
    <2>3. CASE OnAdded
      <3>1. target' = [target EXCEPT
                          ![d].pending = target[d].pending - 1,
                          ![d].changed = target[d].changed /\ target[d].pending # 1]
        BY <2>3 DEF OnAdded, d
      <3>2. target[d].pending - 1 \in Int
        BY <2>1
      <3>3. (target[d].changed /\ target[d].pending # 1) \in BOOLEAN
        BY Zenon
      <3>4. target \in [Docs -> Entries]
        BY DEF Data
      <3>. QED
        BY <1>2, <3>1, <3>2, <3>3, <3>4, Remade
    <2>4. CASE OnRemoved
      <3>1. target[d].pending - 1 \in Int
        BY <2>1
      <3>2. target' \in {[target EXCEPT ![d] = NewTarget],
                         [target EXCEPT ![d].pending = target[d].pending - 1]}
        BY <2>4 DEF OnRemoved, d
      <3>3. target \in [Docs -> Entries]
        BY DEF Data
      <3>4. [target EXCEPT ![d] = NewTarget] \in [Docs -> Entries]
        BY <1>2, <3>3, NewType
      <3>5. [target EXCEPT ![d].pending = target[d].pending - 1] \in [Docs -> Entries]
        BY <1>2, <3>1, <3>3, Recounted
      <3>. QED
        BY <3>2, <3>4, <3>5
    <2>5. CASE OnCurrent
      <3>1. [target[d] EXCEPT !.current = TRUE, !.changed = TRUE] \in Entries
        BY <2>1 DEF Entries
      <3>2. target' \in {target, [target EXCEPT ![d] = [target[d] EXCEPT !.current = TRUE, !.changed = TRUE]]}
        BY <1>2, <2>5 DEF OnCurrent, Data, d
      <3>. QED
        BY <1>2, <3>1, <3>2 DEF Data
    <2>6. CASE OnDocument
      <3>1. [target[d] EXCEPT !.changed = TRUE] \in Entries
        BY <2>1 DEF Entries
      <3>2. target' \in {target, [target EXCEPT ![d] = [target[d] EXCEPT !.changed = TRUE]]}
        BY <1>2, <2>6 DEF OnDocument, Data, d
      <3>. QED
        BY <1>2, <3>1, <3>2 DEF Data
    <2>7. CASE OnRejected
      BY <1>2, <2>7, NewType DEF OnRejected, Data, d
    <2>8. CASE OnSnapshot
      <3>1. \A c \in Docs : \A b \in BOOLEAN : [target[c] EXCEPT !.changed = b] \in Entries
        BY <2>2 DEF Entries
      <3>2. PICK s : target' = [c \in Docs |-> [target[c] EXCEPT !.changed = target[c].changed /\ c \notin s]]
        BY <2>8 DEF OnSnapshot
      <3>3. \A c \in Docs : (target[c].changed /\ c \notin s) \in BOOLEAN
        BY Zenon
      <3>. QED
        BY <3>1, <3>2, <3>3
    <2>. QED
      BY <2>3, <2>4, <2>5, <2>6, <2>7, <2>8 DEF OnWatchStreamChange
  <1>. QED
    BY <1>1, <1>2, <1>3, <1>4 DEF Data

LEMMA BackendData ==
  ASSUME Data, Backend
  PROVE  Data'
  <1>1. UNCHANGED <<cache, fresh, target>>
    BY DEF Backend, BackendWatches, BackendRejects, BackendForgets, BackendReads,
           DocumentChanges, store
  <1>2. CASE BackendWatches \/ BackendRejects \/ BackendForgets
    <2>1. Head(up).doc \in Docs /\ up' \in Seq(Asks) /\ UNCHANGED docs
      BY <1>2, HeadOfUp DEF BackendWatches, BackendRejects, BackendForgets, BackendReads
    <2>2. \A kind \in Kinds : Message(kind, Head(up).doc) \in Says
      BY <2>1, MessageType
    <2>3. Update(Head(up).doc, docs[Head(up).doc]) \in Says
      BY <2>1, UpdateType DEF Data
    <2>4. down' \in Seq(Says)
      <3>. DEFINE d == Head(up).doc
      <3>1. /\ Message("added", d) \in Says /\ Message("current", d) \in Says
            /\ Message("snapshot", d) \in Says /\ Message("removed", d) \in Says
            /\ Message("rejected", d) \in Says
        BY <2>2 DEF Kinds
      <3>2. CASE BackendWatches
        <4>. DEFINE middle == IF docs[d] = 0 THEN <<>> ELSE <<Update(d, docs[d])>>
        <4>1. <<Message("added", d)>> \in Seq(Says) /\ middle \in Seq(Says)
              /\ <<Message("current", d), Message("snapshot", d)>> \in Seq(Says)
          BY <2>3, <3>1
        <4>2. down' = ((down \o <<Message("added", d)>>) \o middle)
                          \o <<Message("current", d), Message("snapshot", d)>>
          BY <3>2 DEF BackendWatches
        <4>. HIDE DEF middle, d
        <4>3. down \o <<Message("added", d)>> \in Seq(Says)
          BY <4>1 DEF Data
        <4>4. (down \o <<Message("added", d)>>) \o middle \in Seq(Says)
          BY <4>1, <4>3
        <4>. QED
          BY <4>1, <4>2, <4>4
      <3>3. CASE BackendRejects \/ BackendForgets
        <4>1. down' \in {Append(down, Message("rejected", d)), Append(down, Message("removed", d))}
          BY <3>3 DEF BackendRejects, BackendForgets
        <4>. HIDE DEF d
        <4>2. PICK m \in Says : down' = Append(down, m)
          BY <4>1, <3>1
        <4>. QED
          BY <4>2 DEF Data
      <3>. QED
        BY <1>2, <3>2, <3>3
    <2>. QED
      BY <1>1, <2>1, <2>4 DEF Data
  <1>3. ASSUME NEW d \in Docs, DocumentChanges(d) PROVE Data'
    <2>1. docs' \in [Docs -> Nat] /\ docs'[d] \in Nat /\ UNCHANGED up
      BY <1>3 DEF DocumentChanges, Data
    <2>2. Update(d, docs'[d]) \in Says /\ Message("snapshot", d) \in Says
      BY <2>1, UpdateType, MessageType DEF Kinds
    <2>3. down' \in Seq(Says)
      BY <1>3, <2>2 DEF DocumentChanges, Data
    <2>. QED
      BY <1>1, <2>1, <2>3 DEF Data
  <1>. QED
    BY <1>2, <1>3 DEF Backend

LEMMA NextData ==
  ASSUME Data, OwnListeners, [Next]_vars
  PROVE  Data'
  <1>1. CASE UNCHANGED vars
    BY <1>1 DEF vars, store, stream, Data
  <1>. QED
    BY <1>1, CallsData, StreamingData, ChangesData, BackendData DEF Next

----------------------------------------------------------------------------
(* Events on their way to the application. *)

Told == [kind : {"value", "error"}, doc : Nat, cached : BOOLEAN]

\* Events on their way: an error is the last one, of a listener that is gone.
Delivered ==
    /\ OwnListeners
    /\ inbox \in [Listeners -> Seq(Told)]
    /\ told \in [Listeners -> Told \cup {Nothing}]
    /\ answers \in [Listeners -> Nat]
    /\ \A l \in Listeners :
           /\ l \in listening[Doc[l]] \/ l \in raised => l \in asked
           /\ l \notin asked => inbox[l] = <<>> /\ told[l] = Nothing
           /\ \A i \in DOMAIN inbox[l] :
                  inbox[l][i].kind = "error" => i = Len(inbox[l]) /\ l \notin listening[Doc[l]]
    /\ \A l \in Gets :
           /\ told[l].kind = "none" => answers[l] = 0
           /\ answers[l] <= 1
           /\ told[l].kind = "error" => inbox[l] = <<>> /\ l \notin listening[Doc[l]]
    /\ ListenersKnow

LEMMA EventType ==
  ASSUME NEW doc \in Nat, NEW cached \in BOOLEAN
  PROVE  /\ Event(doc, cached) \in Told
         /\ Event(doc, cached).kind = "value" /\ Event(doc, cached).doc = doc
  BY DEF Event, Told

LEMMA FailureType == Failure \in Told /\ Failure.kind = "error"
  BY DEF Failure, Told

LEMMA InitDelivered ==
  Init => Delivered
  <1>. SUFFICES ASSUME Init PROVE Delivered
    OBVIOUS
  <1>1. Nothing.kind = "none"
    BY DEF Nothing
  <1>2. ListenersKnow
    BY DEF Init, ListenersKnow
  <1>. QED
    BY <1>1, <1>2, ListenersAssumption DEF Init, Delivered, OwnListeners

\* Some listeners get an event with their document: the others' view is as it was.
LEMMA EventsDelivered ==
  ASSUME Delivered, cache' \in [Docs -> Nat], OwnListeners',
         NEW events \in SUBSET Listeners,
         \A l \in Listeners : l \in listening'[Doc[l]] <=> l \in listening[Doc[l]] \/ l \in asked' \ asked,
         \A l \in events : l \in listening'[Doc[l]] /\ l \in raised',
         \A l \in Listeners : l \in raised' => l \in raised \cup events,
         asked \subseteq asked', \A l \in events : l \in asked',
         \A l \in Listeners : \E b \in BOOLEAN :
             inbox'[l] = IF l \in events THEN Append(inbox[l], Event(cache'[Doc[l]], b)) ELSE inbox[l],
         inbox' = [l \in Listeners |-> inbox'[l]],
         \A l \in Listeners \ Gets :
             l \in listening'[Doc[l]] /\ l \in raised /\ l \notin events => cache'[Doc[l]] = cache[Doc[l]],
         UNCHANGED <<told, answers>>
  PROVE  Delivered'
  <1>0. \A l \in Listeners : Doc[l] \in Docs /\ cache'[Doc[l]] \in Nat
    BY ListenersAssumption
  <1>1. ASSUME NEW l \in Listeners
        PROVE  /\ inbox'[l] \in Seq(Told)
               /\ l \notin events => inbox'[l] = inbox[l]
               /\ l \in events =>
                      /\ inbox'[l] # <<>> /\ Len(inbox'[l]) = Len(inbox[l]) + 1
                      /\ inbox'[l][Len(inbox'[l])].doc = cache'[Doc[l]]
                      /\ \A i \in DOMAIN inbox'[l] :
                             \/ i \in DOMAIN inbox[l] /\ inbox'[l][i] = inbox[l][i]
                             \/ i = Len(inbox'[l]) /\ inbox'[l][i].kind = "value"
    <2>1. inbox[l] \in Seq(Told)
      BY DEF Delivered
    <2>2. PICK b \in BOOLEAN : inbox'[l] = IF l \in events
                   THEN Append(inbox[l], Event(cache'[Doc[l]], b)) ELSE inbox[l]
      OBVIOUS
    <2>3. PICK e \in Told : /\ e.kind = "value" /\ e.doc = cache'[Doc[l]]
                            /\ inbox'[l] = IF l \in events THEN Append(inbox[l], e) ELSE inbox[l]
      BY <1>0, <2>2, EventType
    <2>4. CASE l \in events
      <3>1. /\ inbox'[l] = Append(inbox[l], e) /\ Len(inbox'[l]) = Len(inbox[l]) + 1
            /\ inbox'[l] \in Seq(Told) /\ DOMAIN inbox'[l] = 1..(Len(inbox[l]) + 1)
            /\ DOMAIN inbox[l] = 1..Len(inbox[l]) /\ Len(inbox[l]) \in Nat
            /\ \A i \in 1..Len(inbox[l]) : inbox'[l][i] = inbox[l][i]
            /\ inbox'[l][Len(inbox[l]) + 1] = e
        BY <2>1, <2>3, <2>4
      <3>2. inbox'[l] # <<>>
        BY <3>1
      <3>3. ASSUME NEW i \in DOMAIN inbox'[l]
            PROVE  \/ i \in DOMAIN inbox[l] /\ inbox'[l][i] = inbox[l][i]
                   \/ i = Len(inbox'[l]) /\ inbox'[l][i].kind = "value"
        BY <2>3, <3>1
      <3>. QED
        BY <2>3, <2>4, <3>1, <3>2, <3>3
    <2>. QED
      BY <2>1, <2>3, <2>4
  <1>2. inbox' \in [Listeners -> Seq(Told)]
    BY <1>1
  <1>3. ASSUME NEW l \in Listeners
        PROVE  /\ l \in listening'[Doc[l]] \/ l \in raised' => l \in asked'
               /\ l \notin asked' => inbox'[l] = <<>> /\ told'[l] = Nothing
    BY <1>1 DEF Delivered
  <1>4. ASSUME NEW l \in Listeners, NEW i \in DOMAIN inbox'[l], inbox'[l][i].kind = "error"
        PROVE  i = Len(inbox'[l]) /\ l \notin listening'[Doc[l]]
    <2>1. i \in DOMAIN inbox[l] /\ inbox'[l][i] = inbox[l][i]
      BY <1>1, <1>4
    <2>2. i = Len(inbox[l]) /\ l \notin listening[Doc[l]]
      BY <2>1, <1>4 DEF Delivered
    <2>3. inbox[l] # <<>>
      BY <2>1 DEF Delivered
    <2>4. l \in asked
      BY <2>3 DEF Delivered
    <2>5. l \notin listening'[Doc[l]]
      BY <2>2, <2>4
    <2>. QED
      BY <1>1, <2>2, <2>5
  <1>5. ASSUME NEW l \in Gets
        PROVE  /\ told'[l].kind = "none" => answers'[l] = 0
               /\ answers'[l] <= 1
               /\ told'[l].kind = "error" => inbox'[l] = <<>> /\ l \notin listening'[Doc[l]]
    <2>1. l \in Listeners
      BY ListenersAssumption
    <2>2. ASSUME told[l].kind = "error" PROVE inbox'[l] = <<>> /\ l \notin listening'[Doc[l]]
      <3>1. l \in asked
        <4>1. told[l] # Nothing
          BY <2>2 DEF Nothing
        <4>. QED
          BY <2>1, <4>1 DEF Delivered
      <3>2. l \notin listening'[Doc[l]] /\ inbox[l] = <<>>
        BY <2>1, <2>2, <3>1 DEF Delivered
      <3>. QED
        BY <2>1, <3>2, <1>1
    <2>. QED
      BY <2>2 DEF Delivered
  <1>6. ListenersKnow'
    <2>. SUFFICES ASSUME NEW l \in Listeners \ Gets, l \in listening'[Doc[l]] \cap raised'
                  PROVE  LastWord(l)'.doc = cache'[Doc[l]]
      BY DEF ListenersKnow
    <2>1. CASE l \in events
      BY <2>1, <1>1 DEF LastWord
    <2>2. CASE l \notin events
      <3>1. l \in raised /\ inbox'[l] = inbox[l] /\ LastWord(l)' = LastWord(l)
        BY <2>2, <1>1 DEF LastWord
      <3>2. l \in listening[Doc[l]]
        BY <3>1 DEF Delivered
      <3>. QED
        BY <2>2, <3>1, <3>2 DEF Delivered, ListenersKnow
    <2>. QED
      BY <2>1, <2>2
  <1>. QED
    BY <1>2, <1>3, <1>4, <1>5, <1>6 DEF Delivered

\* Listeners are removed.
LEMMA FewerDelivered ==
  ASSUME Delivered, OwnListeners', UNCHANGED <<cache, asked, raised, inbox, told, answers>>,
         \A l \in Listeners : l \in listening'[Doc[l]] => l \in listening[Doc[l]]
  PROVE  Delivered'
  <1>1. ListenersKnow'
    BY DEF Delivered, ListenersKnow, LastWord
  <1>. QED
    BY <1>1, ListenersAssumption DEF Delivered

LEMMA CalledDelivered ==
  ASSUME Delivered, Data, NEW l \in Listeners, AddQueryListener(l)
  PROVE  Delivered'
  <1>. DEFINE d == Doc[l]
              cached == d \notin current'
              raises == ShouldRaiseInitialEvent(l, state', d \in current', cache[d], d \in results')
              events == IF raises THEN {l} ELSE {}
  <1>1. /\ d \in Docs /\ listening' = [listening EXCEPT ![d] = @ \cup {l}]
        /\ l \notin asked /\ asked' = asked \cup {l}
        /\ UNCHANGED <<cache, told, answers>>
    BY ListenersAssumption DEF AddQueryListener, store, main
  <1>2. \/ raises /\ raised' = raised \cup {l}
                  /\ inbox' = [inbox EXCEPT ![l] = Append(@, Event(cache[d], cached))]
        \/ ~raises /\ raised' = raised /\ inbox' = inbox
    BY DEF AddQueryListener
  <1>3. cached \in BOOLEAN
    BY Zenon
  <1>. HIDE DEF raises, cached
  <1>4. OwnListeners'
    BY <1>1 DEF Delivered, OwnListeners
  <1>5. \A k \in Listeners : k \in listening'[Doc[k]] <=> k \in listening[Doc[k]] \/ k \in asked' \ asked
    BY <1>1 DEF Delivered, OwnListeners
  <1>6. events \in SUBSET Listeners /\ \A k \in events : k \in listening'[Doc[k]] /\ k \in raised' /\ k \in asked'
    BY <1>1, <1>2, <1>5
  <1>7. inbox \in [Listeners -> Seq(Told)]
    BY DEF Delivered
  <1>8. \A k \in Listeners : inbox'[k] = IF k \in events THEN Append(inbox[k], Event(cache'[Doc[k]], cached))
                                          ELSE inbox[k]
    BY <1>1, <1>2, <1>7
  <1>9. inbox' = [k \in Listeners |-> inbox'[k]]
    BY <1>2, <1>7
  <1>10. cache' \in [Docs -> Nat] /\ \A k \in Listeners : k \in raised' => k \in raised \cup events
    BY <1>1, <1>2 DEF Data
  <1>. HIDE DEF events, d
  <1>. QED
    BY <1>1, <1>3, <1>4, <1>5, <1>6, <1>8, <1>9, <1>10, EventsDelivered

LEMMA OfflineDelivered ==
  ASSUME Delivered, Data, GoOffline, UNCHANGED <<cache, asked, listening, told, answers>>
  PROVE  Delivered'
  <1>. DEFINE waiting == {l \in Listeners : l \in listening[Doc[l]] /\ l \notin raised}
              synced  == {l \in raised \cap Gets : l \in listening[Doc[l]] /\ Doc[l] \in current}
              events  == waiting \cup synced
  <1>1. /\ raised' = raised \cup waiting
        /\ inbox' = [l \in Listeners |-> IF l \in events
                         THEN Append(inbox[l], Event(cache[Doc[l]], TRUE)) ELSE inbox[l]]
    BY DEF GoOffline
  <1>2. events \in SUBSET Listeners /\ \A l \in events : l \in listening'[Doc[l]] /\ l \in raised' /\ l \in asked'
    BY <1>1, ListenersAssumption DEF Delivered
  <1>3. \A l \in Listeners : l \in raised' => l \in raised \cup events
    BY <1>1
  <1>4. cache' \in [Docs -> Nat] /\ OwnListeners'
    BY DEF Data, Delivered, OwnListeners
  <1>. HIDE DEF events, waiting
  <1>5. \A l \in Listeners : inbox'[l] = IF l \in events THEN Append(inbox[l], Event(cache'[Doc[l]], TRUE))
                                          ELSE inbox[l]
    BY <1>1
  <1>6. inbox' = [l \in Listeners |-> inbox'[l]]
    BY <1>1
  <1>. QED
    BY <1>2, <1>3, <1>4, <1>5, <1>6, EventsDelivered

LEMMA SnapshotDelivered ==
  ASSUME Delivered, Data, Data', OnSnapshot
  PROVE  Delivered'
  <1>1. PICK changed, synced :
            LET after  == (current \ changed) \cup synced
                doc    == [d \in Docs |-> IF fresh[d] > cache[d] THEN fresh[d] ELSE cache[d]]
                events == {l \in Listeners : HasEvent(l, current, after, doc)}
            IN  /\ cache' = doc
                /\ raised' = raised \cup events
                /\ inbox' = [l \in Listeners |-> IF l \in events
                                 THEN Append(inbox[l], Event(doc[Doc[l]], Doc[l] \notin after))
                                 ELSE inbox[l]]
    BY DEF OnSnapshot
  <1>. DEFINE after  == (current \ changed) \cup synced
              events == {l \in Listeners : HasEvent(l, current, after, cache')}
  <1>2. /\ raised' = raised \cup events
        /\ inbox' = [l \in Listeners |-> IF l \in events
                         THEN Append(inbox[l], Event(cache'[Doc[l]], Doc[l] \notin after))
                         ELSE inbox[l]]
    BY <1>1
  <1>3. UNCHANGED <<listening, asked, told, answers>>
    BY DEF OnSnapshot, Heard, main
  <1>4. events \in SUBSET Listeners /\ \A l \in events : l \in listening'[Doc[l]] /\ l \in raised' /\ l \in asked'
    BY <1>2, <1>3 DEF HasEvent, Delivered
  <1>5. \A l \in Listeners : l \in raised' => l \in raised \cup events
    BY <1>2
  <1>6. cache' \in [Docs -> Nat] /\ OwnListeners'
    BY <1>3 DEF Data, Delivered, OwnListeners
  <1>7. \A l \in Listeners \ Gets :
             l \in listening'[Doc[l]] /\ l \in raised /\ l \notin events => cache'[Doc[l]] = cache[Doc[l]]
    BY <1>3 DEF HasEvent
  <1>8. \A l \in Listeners : (Doc[l] \notin after) \in BOOLEAN
    BY Zenon
  <1>. HIDE DEF events, after
  <1>9. \A l \in Listeners : inbox'[l] = IF l \in events THEN Append(inbox[l], Event(cache'[Doc[l]], Doc[l] \notin after))
                                          ELSE inbox[l]
    BY <1>2
  <1>10. inbox' = [l \in Listeners |-> inbox'[l]]
    BY <1>2
  <1>11. \A l \in Listeners : \E b \in BOOLEAN :
             inbox'[l] = IF l \in events THEN Append(inbox[l], Event(cache'[Doc[l]], b)) ELSE inbox[l]
    BY <1>8, <1>9
  <1>. QED
    BY <1>3, <1>4, <1>5, <1>6, <1>7, <1>10, <1>11, EventsDelivered

LEMMA RejectionDelivered ==
  ASSUME Delivered, Data, OnRejected
  PROVE  Delivered'
  <1>. DEFINE d == Head(down).doc
              gone == {l \in Listeners : l \in listening[d]}
  <1>1. d \in Docs
    BY HeadOfDown DEF OnRejected, Heard
  <1>2. /\ listening' = [listening EXCEPT ![d] = {}]
        /\ inbox' = [l \in Listeners |-> IF l \in gone THEN Append(inbox[l], Failure) ELSE inbox[l]]
        /\ UNCHANGED <<cache, raised, asked, told, answers>>
    BY DEF OnRejected, Heard, store, main
  <1>3. OwnListeners' /\ \A l \in Listeners : l \in listening'[Doc[l]] <=> l \in listening[Doc[l]] /\ l \notin gone
    BY <1>1, <1>2 DEF Delivered, OwnListeners
  <1>4. \A l \in gone : l \in Listeners /\ l \in listening[Doc[l]] /\ l \in asked
    BY <1>1 DEF Delivered, OwnListeners
  <1>. HIDE DEF gone, d
  <1>5. ASSUME NEW l \in Listeners
        PROVE  /\ inbox'[l] \in Seq(Told)
               /\ l \notin gone => inbox'[l] = inbox[l]
               /\ \A i \in DOMAIN inbox'[l] :
                      \/ i \in DOMAIN inbox[l] /\ inbox'[l][i] = inbox[l][i]
                      \/ i = Len(inbox'[l])
    <2>1. inbox[l] \in Seq(Told)
      BY DEF Delivered
    <2>2. CASE l \in gone
      <3>1. /\ inbox'[l] = Append(inbox[l], Failure)
            /\ inbox'[l] \in Seq(Told) /\ DOMAIN inbox'[l] = 1..(Len(inbox[l]) + 1)
            /\ Len(inbox'[l]) = Len(inbox[l]) + 1
            /\ DOMAIN inbox[l] = 1..Len(inbox[l]) /\ Len(inbox[l]) \in Nat
            /\ \A i \in 1..Len(inbox[l]) : inbox'[l][i] = inbox[l][i]
        BY <1>2, <2>1, <2>2, FailureType
      <3>. QED
        BY <2>2, <3>1
    <2>3. CASE l \notin gone
      BY <1>2, <2>1, <2>3
    <2>. QED
      BY <2>2, <2>3
  <1>6. inbox' \in [Listeners -> Seq(Told)]
    BY <1>2, <1>5
  <1>7. ASSUME NEW l \in Listeners, NEW i \in DOMAIN inbox'[l], inbox'[l][i].kind = "error"
        PROVE  i = Len(inbox'[l]) /\ l \notin listening'[Doc[l]]
    <2>1. CASE l \in gone
      <3>1. \A j \in DOMAIN inbox[l] : inbox[l][j].kind # "error"
        BY <1>4, <2>1 DEF Delivered
      <3>. QED
        BY <1>3, <1>5, <1>7, <2>1, <3>1
    <2>2. CASE l \notin gone
      BY <1>3, <1>5, <1>7, <2>2 DEF Delivered
    <2>. QED
      BY <2>1, <2>2
  <1>8. ASSUME NEW l \in Gets, told[l].kind = "error"
        PROVE  inbox'[l] = <<>> /\ l \notin listening'[Doc[l]]
    <2>1. l \in Listeners /\ inbox[l] = <<>> /\ l \notin listening[Doc[l]]
      BY <1>8, ListenersAssumption DEF Delivered
    <2>. QED
      BY <2>1, <1>3, <1>4, <1>5
  <1>9. ListenersKnow'
    BY <1>2, <1>3, <1>5 DEF Delivered, ListenersKnow, LastWord
  <1>10. ASSUME NEW l \in Listeners
         PROVE  /\ l \in listening'[Doc[l]] \/ l \in raised' => l \in asked'
                /\ l \notin asked' => inbox'[l] = <<>> /\ told'[l] = Nothing
    BY <1>2, <1>3, <1>4, <1>5 DEF Delivered
  <1>. QED
    BY <1>2, <1>3, <1>6, <1>7, <1>8, <1>9, <1>10 DEF Delivered

LEMMA EmptySeqHasNoLength ==
  ASSUME NEW s \in Seq(Told)
  PROVE  s = <<>> <=> Len(s) = 0
  OBVIOUS

LEMMA HeadsTail ==
  ASSUME NEW s \in Seq(Told), s # <<>>
  PROVE  /\ Tail(s) \in Seq(Told) /\ Head(s) \in Told /\ Head(s) = s[1] /\ 1 \in DOMAIN s
         /\ Len(s) \in Nat \ {0} /\ Len(Tail(s)) = Len(s) - 1
         /\ \A i \in DOMAIN Tail(s) : i + 1 \in DOMAIN s /\ Tail(s)[i] = s[i + 1]
         /\ Tail(s) = <<>> <=> Len(s) = 1
         /\ Tail(s) # <<>> => Tail(s)[Len(Tail(s))] = s[Len(s)]
  <1>1. /\ Tail(s) \in Seq(Told) /\ Head(s) \in Told /\ Head(s) = s[1]
        /\ Len(s) \in Nat \ {0} /\ Len(Tail(s)) = Len(s) - 1
        /\ DOMAIN s = 1..Len(s) /\ DOMAIN Tail(s) = 1..(Len(s) - 1)
        /\ \A i \in DOMAIN Tail(s) : Tail(s)[i] = s[i + 1]
    OBVIOUS
  <1>2. Tail(s) = <<>> <=> Len(s) = 1
    <2>1. Tail(s) = <<>> <=> Len(Tail(s)) = 0
      BY <1>1, EmptySeqHasNoLength
    <2>. QED
      BY <1>1, <2>1
  <1>. QED
    BY <1>1, <1>2

LEMMA EventDelivered ==
  ASSUME Delivered, NEW l \in Listeners, EventRuns(l)
  PROVE  Delivered'
  <1>1. /\ inbox[l] # <<>> /\ inbox' = [inbox EXCEPT ![l] = Tail(inbox[l])]
        /\ UNCHANGED <<cache, listening, raised, asked>>
    BY DEF EventRuns, store, views
  <1>2. inbox[l] \in Seq(Told) /\ inbox \in [Listeners -> Seq(Told)] /\ OwnListeners'
    BY <1>1 DEF Delivered, OwnListeners
  <1>3. inbox' \in [Listeners -> Seq(Told)] /\ inbox'[l] = Tail(inbox[l])
        /\ \A k \in Listeners \ {l} : inbox'[k] = inbox[k]
    BY <1>1, <1>2, HeadsTail
  <1>4. l \in asked
    BY <1>1 DEF Delivered
  <1>5. ASSUME NEW k \in Listeners, NEW i \in DOMAIN inbox'[k], inbox'[k][i].kind = "error"
        PROVE  i = Len(inbox'[k]) /\ k \notin listening'[Doc[k]]
    <2>1. CASE k = l
      <3>1. i + 1 \in DOMAIN inbox[l] /\ inbox'[l][i] = inbox[l][i + 1] /\ i \in DOMAIN Tail(inbox[l])
        BY <1>1, <1>2, <1>3, <2>1, HeadsTail
      <3>2. i + 1 = Len(inbox[l]) /\ l \notin listening[Doc[l]]
        BY <1>5, <2>1, <3>1 DEF Delivered
      <3>3. i \in Nat /\ Len(Tail(inbox[l])) = Len(inbox[l]) - 1 /\ Len(inbox[l]) \in Nat
        BY <1>1, <1>2, <3>1, HeadsTail
      <3>. QED
        BY <1>1, <1>3, <2>1, <3>2, <3>3
    <2>2. CASE k # l
      BY <1>1, <1>3, <1>5, <2>2 DEF Delivered
    <2>. QED
      BY <2>1, <2>2
  <1>6. ASSUME NEW k \in Listeners
        PROVE  /\ k \in listening'[Doc[k]] \/ k \in raised' => k \in asked'
               /\ k \notin asked' => inbox'[k] = <<>> /\ told[k] = Nothing /\ k # l
    BY <1>1, <1>3, <1>4 DEF Delivered
  <1>7. CASE l \in Gets /\ told[l].kind = "value"
    <2>1. UNCHANGED <<told, answers>>
      BY <1>7 DEF EventRuns, main
    <2>2. \A k \in Gets : told[k].kind = "error" => k # l
      BY <1>7
    <2>3. ListenersKnow'
      BY <1>1, <1>3, <1>7, <2>1 DEF Delivered, ListenersKnow, LastWord
    <2>4. \A k \in Gets : told[k].kind = "error" => inbox'[k] = <<>> /\ k \notin listening'[Doc[k]]
      BY <1>1, <1>3, <2>2, ListenersAssumption DEF Delivered
    <2>. QED
      BY <1>2, <1>3, <1>5, <1>6, <2>1, <2>3, <2>4 DEF Delivered
  <1>8. CASE ~(l \in Gets /\ told[l].kind = "value")
    <2>1. /\ told' = [told EXCEPT ![l] = Head(inbox[l])]
          /\ answers' = [answers EXCEPT ![l] = @ + 1]
      BY <1>8 DEF EventRuns
    <2>2. Head(inbox[l]) \in Told /\ Head(inbox[l]).kind \in {"value", "error"}
          /\ Head(inbox[l]) = inbox[l][1] /\ 1 \in DOMAIN inbox[l]
      BY <1>1, <1>2, HeadsTail DEF Told
    <2>3. /\ told' \in [Listeners -> Told \cup {Nothing}] /\ answers' \in [Listeners -> Nat]
          /\ told'[l] = Head(inbox[l]) /\ answers'[l] = answers[l] + 1
          /\ \A k \in Listeners \ {l} : told'[k] = told[k] /\ answers'[k] = answers[k]
      BY <2>1, <2>2 DEF Delivered
    <2>4. l \in Gets => answers[l] = 0
      <3>1. told[l] \in Told \cup {Nothing}
        BY DEF Delivered
      <3>2. told[l].kind \in {"none", "value", "error"}
        BY <3>1 DEF Told, Nothing
      <3>3. l \in Gets => told[l].kind # "error"
        BY <1>1 DEF Delivered
      <3>. QED
        BY <1>8, <3>2, <3>3 DEF Delivered
    <2>5. Head(inbox[l]).kind = "error" => inbox'[l] = <<>> /\ l \notin listening'[Doc[l]]
      <3>1. Head(inbox[l]).kind = "error" => Len(inbox[l]) = 1 /\ l \notin listening[Doc[l]]
        BY <2>2 DEF Delivered
      <3>. QED
        BY <1>1, <1>2, <1>3, <3>1, HeadsTail
    <2>6. ASSUME NEW k \in Gets
          PROVE  /\ told'[k].kind = "none" => answers'[k] = 0
                 /\ answers'[k] <= 1
                 /\ told'[k].kind = "error" => inbox'[k] = <<>> /\ k \notin listening'[Doc[k]]
      <3>1. CASE k = l
        BY <2>2, <2>3, <2>4, <2>5, <3>1
      <3>2. CASE k # l
        BY <1>1, <1>3, <2>3, <3>2, ListenersAssumption DEF Delivered
      <3>. QED
        BY <3>1, <3>2
    <2>7. ListenersKnow'
      <3>. SUFFICES ASSUME NEW k \in Listeners \ Gets, k \in listening'[Doc[k]] \cap raised'
                    PROVE  LastWord(k)'.doc = cache'[Doc[k]]
        BY DEF ListenersKnow
      <3>1. LastWord(k).doc = cache[Doc[k]]
        BY <1>1 DEF Delivered, ListenersKnow
      <3>2. LastWord(k)' = LastWord(k)
        <4>1. CASE k = l /\ Tail(inbox[l]) = <<>>
          <5>1. Len(inbox[l]) = 1 /\ Head(inbox[l]) = inbox[l][1]
            BY <1>1, <1>2, <4>1, HeadsTail
          <5>. QED
            BY <1>1, <1>3, <2>3, <4>1, <5>1 DEF LastWord
        <4>2. CASE k = l /\ Tail(inbox[l]) # <<>>
          <5>1. Tail(inbox[l])[Len(Tail(inbox[l]))] = inbox[l][Len(inbox[l])]
            BY <1>1, <1>2, <4>2, HeadsTail
          <5>. QED
            BY <1>1, <1>3, <4>2, <5>1 DEF LastWord
        <4>3. CASE k # l
          BY <1>3, <2>3, <4>3 DEF LastWord
        <4>. QED
          BY <4>1, <4>2, <4>3
      <3>. QED
        BY <1>1, <3>1, <3>2
    <2>8. \A k \in Listeners : k \notin asked' => told'[k] = Nothing
      BY <1>6, <2>3
    <2>. QED
      BY <1>2, <1>3, <1>5, <1>6, <2>3, <2>6, <2>7, <2>8 DEF Delivered
  <1>. QED
    BY <1>7, <1>8

LEMMA NextDelivered ==
  ASSUME Delivered, Data, Data', [Next]_vars
  PROVE  Delivered'
  <1>1. ASSUME NEW l \in Listeners, AddQueryListener(l) PROVE Delivered'
    BY <1>1, CalledDelivered
  <1>2. ASSUME NEW l \in Listeners, RemoveQueryListener(l) PROVE Delivered'
    <2>1. /\ UNCHANGED <<cache, asked, raised, inbox, told, answers>>
          /\ listening' = [listening EXCEPT ![Doc[l]] = @ \ {l}] /\ Doc[l] \in Docs
      BY <1>2, ListenersAssumption DEF RemoveQueryListener, store
    <2>2. OwnListeners' /\ \A k \in Listeners : k \in listening'[Doc[k]] => k \in listening[Doc[k]]
      BY <2>1 DEF Delivered, OwnListeners
    <2>. QED
      BY <2>1, <2>2, FewerDelivered
  <1>3. ASSUME NEW l \in Listeners, EventRuns(l) PROVE Delivered'
    BY <1>3, EventDelivered
  <1>4. CASE OnSnapshot
    BY <1>4, SnapshotDelivered
  <1>5. CASE OnRejected
    BY <1>5, RejectionDelivered
  <1>6. CASE OnWatchStreamBroken \/ OnlineStateTimeout
    <2>1. UNCHANGED <<cache, asked, listening, told, answers>>
      BY <1>6 DEF OnWatchStreamBroken, OnlineStateTimeout, store, main
    <2>2. GoOffline \/ UNCHANGED <<raised, inbox>>
      BY <1>6 DEF OnWatchStreamBroken, OnlineStateTimeout, Announce
    <2>3. OwnListeners'
      BY <2>1 DEF Delivered, OwnListeners
    <2>. QED
      BY <2>1, <2>2, <2>3, OfflineDelivered, FewerDelivered
  <1>7. CASE \/ OnWatchStreamOpen \/ BackoffElapsed \/ IdleTimeout \/ OnConnectivityChange
             \/ OnAdded \/ OnRemoved \/ OnCurrent \/ OnDocument \/ Backend \/ UNCHANGED vars
    <2>1. UNCHANGED <<cache, asked, listening, raised, inbox, told, answers>>
      BY <1>7 DEF OnWatchStreamOpen, BackoffElapsed, IdleTimeout, OnConnectivityChange, Announce,
                  OnAdded, OnRemoved, OnCurrent, OnDocument, Heard, Backend, BackendWatches,
                  BackendRejects, BackendForgets, BackendReads, DocumentChanges, vars, store,
                  views, main
    <2>2. OwnListeners'
      BY <2>1 DEF Delivered, OwnListeners
    <2>. QED
      BY <2>1, <2>2, FewerDelivered
  <1>. QED
    BY <1>1, <1>2, <1>3, <1>4, <1>5, <1>6, <1>7
    DEF Next, Calls, Streaming, OnWatchStreamChange

----------------------------------------------------------------------------
(* Requests and their answers. *)

Count(s, S) == Cardinality({i \in DOMAIN s : s[i] \in S})

AsksAbout(d) == {ask \in Asks : ask.doc = d}
Answers(d)   == {say \in Says : say.doc = d /\ say.kind \in {"added", "removed", "rejected"}}
Owed(d)      == Count(up, AsksAbout(d)) + Count(down, Answers(d))

Counted ==
    /\ conn # "open" => up = <<>> /\ down = <<>> /\ watched = {} /\ crossed = {}
    /\ \A d \in Docs \ crossed : target[d].pending = Owed(d)

LEMMA CountType ==
  ASSUME NEW T, NEW s \in Seq(T), NEW S
  PROVE  Count(s, S) \in Nat /\ IsFiniteSet({i \in DOMAIN s : s[i] \in S})
  <1>1. DOMAIN s = 1..Len(s) /\ Len(s) \in Nat
    OBVIOUS
  <1>2. IsFiniteSet(DOMAIN s)
    BY <1>1, FS_Interval
  <1>. QED
    BY <1>2, FS_Subset, FS_CardinalityType DEF Count

LEMMA CountEmpty ==
  ASSUME NEW S
  PROVE  Count(<<>>, S) = 0
  BY FS_EmptySet DEF Count

LEMMA CountAppend ==
  ASSUME NEW T, NEW s \in Seq(T), NEW e \in T, NEW S
  PROVE  Count(Append(s, e), S) = Count(s, S) + IF e \in S THEN 1 ELSE 0
  <1>. DEFINE before == {i \in DOMAIN s : s[i] \in S}
              after  == {i \in DOMAIN Append(s, e) : Append(s, e)[i] \in S}
  <1>1. IsFiniteSet(before) /\ Cardinality(before) \in Nat
    BY CountType DEF Count
  <1>2. after = IF e \in S THEN before \cup {Len(s) + 1} ELSE before
    OBVIOUS
  <1>3. Len(s) + 1 \notin before
    OBVIOUS
  <1>. HIDE DEF before, after
  <1>4. e \in S => Cardinality(after) = Cardinality(before) + 1
    BY <1>1, <1>2, <1>3, FS_AddElement
  <1>5. e \notin S => Cardinality(after) = Cardinality(before) + 0
    BY <1>1, <1>2
  <1>. QED
    BY <1>4, <1>5 DEF before, after, Count

LEMMA CountTail ==
  ASSUME NEW T, NEW s \in Seq(T), s # <<>>, NEW S
  PROVE  Count(s, S) = Count(Tail(s), S) + IF Head(s) \in S THEN 1 ELSE 0
  <1>. DEFINE all   == {i \in DOMAIN s : s[i] \in S}
              rest  == {i \in DOMAIN s : s[i] \in S /\ i # 1}
              after == {i \in DOMAIN Tail(s) : Tail(s)[i] \in S}
  <1>1. /\ Len(s) \in Nat \ {0} /\ DOMAIN s = 1..Len(s) /\ DOMAIN Tail(s) = 1..(Len(s) - 1)
        /\ \A i \in DOMAIN Tail(s) : Tail(s)[i] = s[i + 1]
        /\ Head(s) = s[1] /\ Tail(s) \in Seq(T)
    OBVIOUS
  <1>2. IsFiniteSet(after) /\ Cardinality(after) \in Nat
    BY <1>1, CountType DEF Count
  <1>3. Cardinality(rest) = Cardinality(after) /\ IsFiniteSet(rest)
    <2>. DEFINE shift == [i \in after |-> i + 1]
    <2>1. shift \in [after -> rest]
      BY <1>1
    <2>2. \A i, j \in after : shift[i] = shift[j] => i = j
      BY <1>1
    <2>3. \A j \in rest : \E i \in after : shift[i] = j
      <3>. TAKE j \in rest
      <3>1. j - 1 \in after /\ shift[j - 1] = j
        BY <1>1
      <3>. QED
        BY <3>1
    <2>. HIDE DEF shift, rest, after
    <2>4. shift \in Bijection(after, rest)
      BY <2>1, <2>2, <2>3 DEF Bijection, Injection, Surjection, IsInjective
    <2>. QED
      BY <1>2, <2>4, FS_Bijection DEF ExistsBijection
  <1>4. Head(s) \in S => all = rest \cup {1}
    BY <1>1
  <1>5. Head(s) \notin S => all = rest
    BY <1>1
  <1>6. 1 \notin rest
    OBVIOUS
  <1>. HIDE DEF all, rest, after
  <1>7. Head(s) \in S => Cardinality(all) = Cardinality(after) + 1
    BY <1>3, <1>4, <1>6, FS_AddElement
  <1>8. Head(s) \notin S => Cardinality(all) = Cardinality(after) + 0
    BY <1>2, <1>3, <1>5
  <1>. QED
    BY <1>7, <1>8 DEF all, after, Count

\* Unanswered counts what the sequences hold of a document.
LEMMA UnansweredIsOwed ==
  ASSUME Data, NEW d \in Docs
  PROVE  Unanswered(d) = Owed(d)
  <1>1. \A i \in DOMAIN up : up[i] \in AsksAbout(d) <=> up[i].doc = d
    BY DEF Data, AsksAbout
  <1>2. \A i \in DOMAIN down : down[i] \in Answers(d)
                  <=> down[i].doc = d /\ down[i].kind \in {"added", "removed", "rejected"}
    BY DEF Data, Answers
  <1>3. {i \in DOMAIN up : up[i].doc = d} = {i \in DOMAIN up : up[i] \in AsksAbout(d)}
    BY <1>1
  <1>4. {i \in DOMAIN down : down[i].doc = d /\ down[i].kind \in {"added", "removed", "rejected"}}
            = {i \in DOMAIN down : down[i] \in Answers(d)}
    BY <1>2
  <1>. QED
    BY <1>3, <1>4 DEF Unanswered, Owed, Count

LEMMA OwedType ==
  ASSUME Data, NEW d \in Docs
  PROVE  /\ Count(up, AsksAbout(d)) \in Nat /\ Count(down, Answers(d)) \in Nat
         /\ target[d].pending \in Int
  BY CountType DEF Data, Entries

LEMMA RequestCounts ==
  ASSUME NEW d \in Docs, NEW c \in Docs, NEW listen \in BOOLEAN
  PROVE  Request(listen, d) \in AsksAbout(c) <=> c = d
  BY DEF Request, AsksAbout, Asks

LEMMA MessageCounts ==
  ASSUME NEW d \in Docs, NEW c \in Docs, NEW kind \in Kinds, NEW version \in Nat
  PROVE  /\ Message(kind, d) \in Answers(c) <=> c = d /\ kind \in {"added", "removed", "rejected"}
         /\ Update(d, version) \notin Answers(c)
  BY DEF Message, Update, Answers, Says, Kinds

LEMMA OneMore ==
  ASSUME NEW s \in Seq(Says), NEW m \in Says, NEW c
  PROVE  /\ Append(s, m) \in Seq(Says)
         /\ Count(Append(s, m), Answers(c)) = Count(s, Answers(c)) + IF m \in Answers(c) THEN 1 ELSE 0
         /\ m \notin Answers(c) => Count(Append(s, m), Answers(c)) = Count(s, Answers(c))
  <1>1. Append(s, m) \in Seq(Says)
    OBVIOUS
  <1>2. Count(Append(s, m), Answers(c)) = Count(s, Answers(c)) + IF m \in Answers(c) THEN 1 ELSE 0
    BY CountAppend
  <1>3. Count(s, Answers(c)) \in Nat
    BY CountType
  <1>. QED
    BY <1>1, <1>2, <1>3

LEMMA TwoMore ==
  ASSUME NEW s \in Seq(Says), NEW p \in Says, NEW q \in Says, NEW c,
         p \notin Answers(c), q \notin Answers(c)
  PROVE  Count(s \o <<p, q>>, Answers(c)) = Count(s, Answers(c))
  <1>1. s \o <<p, q>> = Append(Append(s, p), q)
    OBVIOUS
  <1>2. Append(s, p) \in Seq(Says) /\ Count(Append(s, p), Answers(c)) = Count(s, Answers(c))
    BY OneMore
  <1>3. Count(Append(Append(s, p), q), Answers(c)) = Count(Append(s, p), Answers(c))
    BY <1>2, OneMore
  <1>. QED
    BY <1>1, <1>2, <1>3

----------------------------------------------------------------------------
LEMMA InitCounted ==
  Init => Counted
  <1>. SUFFICES ASSUME Init, NEW d \in Docs PROVE target[d].pending = Owed(d)
    BY DEF Init, Counted
  <1>1. target[d].pending = 0
    BY DEF Init, NewTarget
  <1>2. up = <<>> /\ down = <<>>
    BY DEF Init
  <1>. QED
    BY <1>1, <1>2, CountEmpty DEF Owed

LEMMA ClosedCounts ==
  ASSUME Closed
  PROVE  Counted'
  <1>1. up' = <<>> /\ down' = <<>> /\ watched' = {} /\ crossed' = {}
    BY DEF Closed
  <1>2. ASSUME NEW d \in Docs PROVE target'[d].pending = 0 /\ Owed(d)' = 0
    BY <1>1, CountEmpty DEF Closed, NewTarget, Owed
  <1>. QED
    BY <1>1, <1>2 DEF Counted

LEMMA SendCounts ==
  ASSUME Counted, Data, NEW d \in Docs, NEW listen \in BOOLEAN, Send(listen, d),
         conn = "open", UNCHANGED <<conn, down, crossed>>
  PROVE  Counted'
  <1>. SUFFICES ASSUME NEW c \in Docs \ crossed PROVE target'[c].pending = Owed(c)'
    BY DEF Counted
  <1>1. Request(listen, d) \in Asks /\ (Request(listen, d) \in AsksAbout(c) <=> c = d)
    BY RequestCounts DEF Request, Asks
  <1>2. Count(up', AsksAbout(c)) = Count(up, AsksAbout(c)) + IF c = d THEN 1 ELSE 0
    BY <1>1, CountAppend DEF Send, Data
  <1>3. target'[c].pending = IF c = d THEN target[c].pending + 1 ELSE target[c].pending
    BY DEF Send, Data, Entries
  <1>4. Count(down', Answers(c)) = Count(down, Answers(c)) /\ target[c].pending = Owed(c)
    BY DEF Counted
  <1>. HIDE DEF Send
  <1>. QED
    BY <1>2, <1>3, <1>4, OwedType DEF Owed

LEMMA QuietCounts ==
  ASSUME Counted, UNCHANGED <<conn, target, up, down, watched, crossed>>
  PROVE  Counted'
  BY DEF Counted, Owed, Count

LEMMA CallsCount ==
  ASSUME Counted, Data, Calls
  PROVE  Counted'
  <1>1. ASSUME NEW l \in Listeners, AddQueryListener(l) PROVE Counted'
    <2>1. Doc[l] \in Docs
      BY ListenersAssumption
    <2>2. CASE UNCHANGED stream
      BY <2>2, QuietCounts DEF stream
    <2>3. CASE Listen(Doc[l]) /\ conn \notin Started
      BY <2>3, ClosedCounts DEF Listen
    <2>4. CASE Listen(Doc[l]) /\ conn \in Started
      BY <2>1, <2>4, SendCounts, QuietCounts DEF Listen
    <2>. QED
      BY <1>1, <2>2, <2>3, <2>4 DEF AddQueryListener
  <1>2. ASSUME NEW l \in Listeners, RemoveQueryListener(l) PROVE Counted'
    <2>1. Doc[l] \in Docs
      BY ListenersAssumption
    <2>2. CASE UNCHANGED stream
      BY <2>2, QuietCounts DEF stream
    <2>3. CASE Send(FALSE, Doc[l]) /\ conn = "open" /\ UNCHANGED <<conn, down, crossed>>
      BY <2>1, <2>3, SendCounts
    <2>. QED
      BY <1>2, <2>2, <2>3 DEF RemoveQueryListener, StopListening
  <1>3. ASSUME NEW l \in Listeners, EventRuns(l) PROVE Counted'
    BY <1>3, QuietCounts DEF EventRuns, stream
  <1>. QED
    BY <1>1, <1>2, <1>3 DEF Calls

\* A new stream asks for every target once.
LEMMA OpenCounts ==
  ASSUME Counted, Data, Data', OwnListeners, OnWatchStreamOpen
  PROVE  Counted'
  <1>. DEFINE T == Targets(listening)
              n == Cardinality(T)
  <1>1. PICK order \in [1..n -> T] :
            /\ \A i, j \in DOMAIN order : i # j => order[i] # order[j]
            /\ up' = [i \in DOMAIN order |-> Request(TRUE, order[i])]
    BY DEF OnWatchStreamOpen
  <1>2. IsFiniteSet(T) /\ n \in Nat
    BY ListenersAssumption, FS_Subset, FS_CardinalityType DEF Targets
  <1>3. \A d \in T : \E i \in 1..n : order[i] = d
    <2>1. order \in Injection(1..n, T)
      BY <1>1 DEF Injection, IsInjective
    <2>2. Cardinality(1..n) = n
      BY <1>2, FS_Interval
    <2>. HIDE DEF T, n
    <2>3. Cardinality(1..n) = Cardinality(T)
      BY <2>2 DEF n
    <2>4. order \in Surjection(1..n, T)
      BY <1>2, <2>1, <2>3, FS_Injection
    <2>. QED
      BY <2>4 DEF Surjection
  <1>4. conn = "starting" /\ conn' = "open" /\ down = <<>> /\ up = <<>> /\ UNCHANGED <<down, crossed>>
    BY DEF OnWatchStreamOpen, Counted
  <1>. SUFFICES ASSUME NEW d \in Docs \ crossed PROVE target'[d].pending = Owed(d)'
    BY <1>4 DEF Counted
  <1>5. target'[d].pending = IF d \in T THEN 1 ELSE 0
    <2>1. target[d].pending = 0
      BY <1>4, CountEmpty DEF Counted, Owed
    <2>2. target'[d] = [target[d] EXCEPT !.pending = target[d].pending + IF d \in T THEN 1 ELSE 0]
      BY DEF OnWatchStreamOpen
    <2>3. target[d] \in Entries
      BY DEF Data
    <2>4. target'[d].pending = target[d].pending + IF d \in T THEN 1 ELSE 0
      BY <2>2, <2>3 DEF Entries
    <2>. HIDE DEF T
    <2>. QED
      BY <2>1, <2>4
  <1>6. {i \in DOMAIN up' : up'[i] \in AsksAbout(d)} = {i \in 1..n : order[i] = d}
    BY <1>1, RequestCounts DEF Targets
  <1>7. Count(up', AsksAbout(d)) = IF d \in T THEN 1 ELSE 0
    <2>. HIDE DEF T, n
    <2>1. CASE d \in T
      <3>1. PICK i \in 1..n : order[i] = d
        BY <1>3, <2>1
      <3>2. {j \in 1..n : order[j] = d} = {i}
        BY <1>1, <3>1
      <3>. QED
        BY <1>6, <2>1, <3>2, FS_Singleton DEF Count
    <2>2. CASE d \notin T
      <3>1. {j \in 1..n : order[j] = d} = {}
        BY <1>1, <2>2
      <3>. QED
        BY <1>6, <2>2, <3>1, FS_EmptySet DEF Count
    <2>. QED
      BY <2>1, <2>2
  <1>8. Count(down', Answers(d)) = 0
    BY <1>4, CountEmpty
  <1>. HIDE DEF T, n
  <1>. QED
    BY <1>5, <1>7, <1>8 DEF Owed

----------------------------------------------------------------------------
(* Answers. *)

LEMMA HeadCounts ==
  ASSUME Counted, Data, NEW kind, Heard(kind), NEW c \in Docs
  PROVE  /\ conn' = conn /\ conn = "open" /\ Head(down).doc \in Docs
         /\ Count(down, Answers(c)) = Count(down', Answers(c))
                + IF kind \in {"added", "removed", "rejected"} /\ Head(down).doc = c THEN 1 ELSE 0
         /\ Count(down', Answers(c)) \in Nat
         /\ up' = up
  <1>1. down # <<>> /\ Head(down).kind = kind /\ down' = Tail(down) /\ UNCHANGED <<conn, up>>
    BY DEF Heard
  <1>2. Head(down) \in Says /\ Head(down).doc \in Docs
    BY <1>1, HeadOfDown DEF Data
  <1>3. Head(down) \in Answers(c) <=> kind \in {"added", "removed", "rejected"} /\ Head(down).doc = c
    BY <1>1, <1>2 DEF Answers
  <1>4. Count(down, Answers(c)) = Count(down', Answers(c)) + IF Head(down) \in Answers(c) THEN 1 ELSE 0
    BY <1>1, CountTail DEF Data
  <1>5. Count(down', Answers(c)) \in Nat
    BY <1>1, HeadOfDown, CountType DEF Data
  <1>. QED
    BY <1>1, <1>2, <1>3, <1>4, <1>5 DEF Counted

LEMMA AnswerCounts ==
  ASSUME Counted, Data, OnAdded \/ OnRemoved
  PROVE  Counted'
  <1>. DEFINE d == Head(down).doc
  <1>1. PICK kind \in {"added", "removed"} : Heard(kind)
    BY DEF OnAdded, OnRemoved
  <1>2. crossed' = crossed /\ d \in Docs /\ conn = "open" /\ conn' = conn
    BY <1>1, HeadCounts, HeadOfDown DEF OnAdded, OnRemoved, Heard, Counted
  <1>. SUFFICES ASSUME NEW c \in Docs \ crossed PROVE target'[c].pending = Owed(c)'
    BY <1>2 DEF Counted
  <1>3. target'[c].pending = IF c = d THEN target[c].pending - 1 ELSE target[c].pending
    <2>. HIDE DEF d
    <2>1. CASE OnAdded
      BY <1>2, <2>1 DEF OnAdded, Data, Entries, d
    <2>2. CASE OnRemoved
      <3>1. target' = IF target[d].pending = 1 THEN [target EXCEPT ![d] = NewTarget]
                      ELSE [target EXCEPT ![d].pending = target[d].pending - 1]
        BY <2>2 DEF OnRemoved, d
      <3>. QED
        BY <1>2, <3>1 DEF Data, Entries, NewTarget
    <2>. QED
      BY <2>1, <2>2
  <1>4. target[c].pending = Owed(c)
    BY DEF Counted
  <1>5. /\ Count(down, Answers(c)) = Count(down', Answers(c)) + IF d = c THEN 1 ELSE 0
        /\ Count(down', Answers(c)) \in Nat /\ up' = up
    BY <1>1, HeadCounts
  <1>. HIDE DEF d
  <1>. QED
    BY <1>3, <1>4, <1>5, OwedType DEF Owed

LEMMA OtherMessagesCount ==
  ASSUME Counted, Data, OnCurrent \/ OnDocument \/ OnSnapshot
  PROVE  Counted'
  <1>. DEFINE d == Head(down).doc
  <1>1. PICK kind \in {"current", "document", "snapshot"} : Heard(kind)
    BY DEF OnCurrent, OnDocument, OnSnapshot
  <1>2. crossed' = crossed /\ d \in Docs /\ conn = "open" /\ conn' = conn
    BY <1>1, HeadCounts, HeadOfDown DEF OnCurrent, OnDocument, OnSnapshot, Heard, Counted
  <1>. SUFFICES ASSUME NEW c \in Docs \ crossed PROVE target'[c].pending = Owed(c)'
    BY <1>2 DEF Counted
  <1>3. target'[c].pending = target[c].pending
    <2>. HIDE DEF d
    <2>. DEFINE current2 == [target EXCEPT ![d].current = TRUE, ![d].changed = TRUE]
                document == [target EXCEPT ![d].changed = TRUE]
    <2>1. CASE OnCurrent \/ OnDocument
      <3>1. target' \in {target, current2, document}
        BY <2>1 DEF OnCurrent, OnDocument, d
      <3>2. target[c] \in Entries /\ target[d] \in Entries
        BY <1>2 DEF Data
      <3>3. current2[c].pending = target[c].pending
        BY <1>2, <3>2 DEF Data, Entries
      <3>4. document[c].pending = target[c].pending
        BY <1>2, <3>2 DEF Data, Entries
      <3>. QED
        BY <3>1, <3>3, <3>4
    <2>2. CASE OnSnapshot
      <3>1. PICK s : target' = [b \in Docs |-> [target[b] EXCEPT !.changed = target[b].changed /\ b \notin s]]
        BY <2>2 DEF OnSnapshot
      <3>2. target[c] \in Entries
        BY DEF Data
      <3>. QED
        BY <3>1, <3>2 DEF Entries
    <2>. QED
      BY <2>1, <2>2
  <1>4. target[c].pending = Owed(c)
    BY DEF Counted
  <1>5. /\ Count(down, Answers(c)) = Count(down', Answers(c)) + 0
        /\ Count(down', Answers(c)) \in Nat /\ up' = up
    BY <1>1, HeadCounts
  <1>. HIDE DEF d
  <1>. QED
    BY <1>3, <1>4, <1>5, OwedType DEF Owed

LEMMA RejectionCounts ==
  ASSUME Counted, Data, OnRejected
  PROVE  Counted'
  <1>. DEFINE d == Head(down).doc
  <1>1. Heard("rejected") /\ d \in Docs /\ conn = "open" /\ conn' = conn
    BY HeadCounts, HeadOfDown DEF OnRejected, Heard, Counted
  <1>2. /\ crossed' = IF Unanswered(d) > 1 \/ listening[d] = {} THEN crossed \cup {d} ELSE crossed
        /\ target' = [target EXCEPT ![d] = IF listening[d] = {} THEN target[d] ELSE NewTarget]
    BY DEF OnRejected
  <1>. SUFFICES ASSUME NEW c \in Docs \ crossed' PROVE target'[c].pending = Owed(c)'
    BY <1>1 DEF Counted
  <1>3. c \notin crossed
    BY <1>2
  <1>4. /\ Count(down, Answers(c)) = Count(down', Answers(c)) + IF d = c THEN 1 ELSE 0
        /\ Count(down', Answers(c)) \in Nat /\ up' = up
    BY <1>1, HeadCounts
  <1>5. target[c].pending = Owed(c) /\ Unanswered(c) = Owed(c)
    BY <1>3, UnansweredIsOwed DEF Counted
  <1>. HIDE DEF d
  <1>6. CASE c = d
    <2>1. Owed(c) <= 1 /\ listening[d] # {}
      BY <1>2, <1>5, <1>6, OwedType DEF Owed
    <2>2. target'[c].pending = 0
      BY <1>1, <1>2, <1>6, <2>1 DEF NewTarget, Data
    <2>. QED
      BY <1>4, <1>6, <2>1, <2>2, OwedType DEF Owed
  <1>7. CASE c # d
    <2>1. target'[c].pending = target[c].pending
      BY <1>1, <1>2, <1>7 DEF Data
    <2>. QED
      BY <1>4, <1>5, <1>7, <2>1, OwedType DEF Owed
  <1>. QED
    BY <1>6, <1>7

----------------------------------------------------------------------------
(* The backend answers each request once. *)

LEMMA ReadCounts ==
  ASSUME Counted, Data, BackendWatches \/ BackendRejects \/ BackendForgets
  PROVE  Counted'
  <1>. DEFINE d == Head(up).doc
  <1>1. /\ up # <<>> /\ up' = Tail(up) /\ UNCHANGED <<conn, target, crossed>>
    BY DEF BackendWatches, BackendRejects, BackendForgets, BackendReads
  <1>2. d \in Docs /\ Head(up) \in Asks
    BY <1>1, HeadOfUp DEF Data
  <1>3. conn = "open"
    BY <1>1 DEF Counted
  <1>. SUFFICES ASSUME NEW c \in Docs \ crossed PROVE target'[c].pending = Owed(c)'
    BY <1>1, <1>3 DEF Counted
  <1>4. Count(up, AsksAbout(c)) = Count(up', AsksAbout(c)) + IF c = d THEN 1 ELSE 0
    <2>1. Head(up) \in AsksAbout(c) <=> c = d
      BY <1>2 DEF AsksAbout
    <2>. QED
      BY <1>1, <2>1, CountTail DEF Data
  <1>5. Count(up', AsksAbout(c)) \in Nat
    BY <1>1, HeadOfUp, CountType DEF Data
  <1>. HIDE DEF d
  <1>6. Count(down', Answers(c)) = Count(down, Answers(c)) + IF c = d THEN 1 ELSE 0
    <2>1. /\ \A kind \in Kinds : Message(kind, d) \in Says
          /\ \A kind \in {"added", "removed", "rejected"} : Message(kind, d) \in Answers(c) <=> c = d
          /\ \A kind \in {"current", "snapshot"} : Message(kind, d) \notin Answers(c)
      BY <1>2, MessageType, MessageCounts DEF Kinds
    <2>2. down \in Seq(Says)
      BY DEF Data
    <2>3. CASE BackendWatches
      <3>. DEFINE m == Message("added", d)
                  middle == IF docs[d] = 0 THEN <<>> ELSE <<Update(d, docs[d])>>
                  u == Update(d, docs[d])
                  p == Message("current", d)
                  q == Message("snapshot", d)
      <3>1. m \in Says /\ u \in Says /\ p \in Says /\ q \in Says
        BY <1>2, <2>1, UpdateType DEF Data, Kinds
      <3>2. (m \in Answers(c) <=> c = d) /\ u \notin Answers(c) /\ p \notin Answers(c) /\ q \notin Answers(c)
        BY <1>2, <2>1, MessageCounts DEF Data, Kinds
      <3>3. down' = ((down \o <<m>>) \o (IF docs[d] = 0 THEN <<>> ELSE <<u>>)) \o <<p, q>>
        BY <2>3 DEF BackendWatches, d
      <3>. HIDE DEF m, u, p, q
      <3>. DEFINE s1 == Append(down, m)
                  s2 == IF docs[d] = 0 THEN s1 ELSE Append(s1, u)
      <3>4. s1 \in Seq(Says) /\ Count(s1, Answers(c)) = Count(down, Answers(c)) + IF c = d THEN 1 ELSE 0
        BY <2>2, <3>1, <3>2, OneMore
      <3>5. s2 \in Seq(Says) /\ Count(s2, Answers(c)) = Count(s1, Answers(c))
        <4>. HIDE DEF s1
        <4>. QED
          BY <3>1, <3>2, <3>4, OneMore
      <3>6. down' = s2 \o <<p, q>>
        <4>1. down \o <<m>> = s1
          BY <2>2, <3>1
        <4>. HIDE DEF s1
        <4>2. s1 \o (IF docs[d] = 0 THEN <<>> ELSE <<u>>) = s2
          <5>1. CASE docs[d] = 0
            BY <3>4, <5>1
          <5>2. CASE docs[d] # 0
            BY <3>1, <3>4, <5>2
          <5>. QED
            BY <5>1, <5>2
        <4>. QED
          BY <3>3, <4>1, <4>2
      <3>. HIDE DEF s1, s2
      <3>7. Count(down', Answers(c)) = Count(s2, Answers(c))
        BY <3>1, <3>2, <3>5, <3>6, TwoMore
      <3>. QED
        BY <3>4, <3>5, <3>7
    <2>4. CASE BackendRejects \/ BackendForgets
      <3>1. PICK kind \in {"removed", "rejected"} : down' = Append(down, Message(kind, d))
        BY <2>4 DEF BackendRejects, BackendForgets, d
      <3>. QED
        BY <2>1, <2>2, <3>1, CountAppend DEF Kinds
    <2>. QED
      BY <2>3, <2>4
  <1>7. target'[c].pending = target[c].pending /\ target[c].pending = Owed(c)
    BY <1>1 DEF Counted
  <1>. QED
    BY <1>4, <1>5, <1>6, <1>7, OwedType DEF Owed

LEMMA ChangeCounts ==
  ASSUME Counted, Data, Data', NEW d \in Docs, DocumentChanges(d)
  PROVE  Counted'
  <1>1. UNCHANGED <<conn, target, up, crossed>>
    BY DEF DocumentChanges
  <1>2. CASE d \notin watched
    BY <1>1, <1>2, QuietCounts DEF DocumentChanges
  <1>3. CASE d \in watched /\ conn = "open"
    <2>. SUFFICES ASSUME NEW c \in Docs \ crossed PROVE target'[c].pending = Owed(c)'
      BY <1>1, <1>3 DEF Counted
    <2>1. Count(down', Answers(c)) = Count(down, Answers(c))
      <3>. DEFINE u == Update(d, docs'[d])
                  q == Message("snapshot", d)
      <3>1. docs'[d] \in Nat
        BY DEF Data
      <3>2. u \in Says /\ q \in Says
        BY <3>1, UpdateType, MessageType DEF Kinds
      <3>3. u \notin Answers(c) /\ q \notin Answers(c)
        BY <3>1, MessageCounts DEF Kinds
      <3>4. down' = down \o <<u, q>>
        BY <1>3 DEF DocumentChanges
      <3>. HIDE DEF u, q
      <3>. QED
        BY <3>2, <3>3, <3>4, TwoMore DEF Data
    <2>2. target[c].pending = Owed(c)
      BY DEF Counted
    <2>. QED
      BY <1>1, <2>1, <2>2 DEF Owed
  <1>4. d \in watched => conn = "open"
    BY DEF Counted
  <1>. QED
    BY <1>2, <1>3, <1>4

LEMMA NextCounted ==
  ASSUME Counted, Data, Data', OwnListeners, [Next]_vars
  PROVE  Counted'
  <1>1. CASE Calls
    BY <1>1, CallsCount
  <1>2. CASE OnWatchStreamOpen
    BY <1>2, OpenCounts
  <1>3. CASE OnWatchStreamBroken \/ IdleTimeout \/ OnConnectivityChange
    BY <1>3, ClosedCounts DEF OnWatchStreamBroken, IdleTimeout, OnConnectivityChange
  <1>4. CASE OnlineStateTimeout \/ UNCHANGED vars
    BY <1>4, QuietCounts DEF OnlineStateTimeout, vars, stream
  <1>5. CASE BackoffElapsed
    <2>1. conn = "backoff" /\ UNCHANGED <<up, down, watched, crossed, target>>
      BY <1>5 DEF BackoffElapsed
    <2>. QED
      BY <2>1 DEF Counted, Owed, Count
  <1>6. CASE OnWatchStreamChange
    BY <1>6, AnswerCounts, OtherMessagesCount, RejectionCounts DEF OnWatchStreamChange
  <1>7. CASE Backend
    BY <1>7, ReadCounts, ChangeCounts DEF Backend
  <1>. QED
    BY <1>1, <1>2, <1>3, <1>4, <1>5, <1>6, <1>7 DEF Next, Streaming

----------------------------------------------------------------------------
(* Types of the rest. *)

Members ==
    /\ tokens \subseteq Docs /\ results \subseteq Docs /\ watched \subseteq Docs /\ crossed \subseteq Docs
    /\ asked \subseteq Listeners /\ raised \subseteq Listeners /\ leaving \subseteq Gets
    /\ floor \in [Listeners -> Nat]

LEMMA InitMembers == Init => Members
  BY DEF Init, Members

LEMMA NextMembers ==
  ASSUME Members, Data, [Next]_vars
  PROVE  Members'
  <1>. USE DEF Members
  <1>1. ASSUME NEW l \in Listeners, AddQueryListener(l) PROVE Members'
    <2>1. Doc[l] \in Docs /\ docs[Doc[l]] \in Nat
      BY ListenersAssumption DEF Data
    <2>2. watched' \subseteq Docs /\ crossed' \subseteq Docs
      BY <1>1 DEF AddQueryListener, Listen, Send, Closed, stream
    <2>3. results' \subseteq Docs /\ floor' \in [Listeners -> Nat]
      BY <1>1, <2>1 DEF AddQueryListener
    <2>. QED
      BY <1>1, <2>2, <2>3 DEF AddQueryListener, store, main
  <1>2. ASSUME NEW l \in Listeners, RemoveQueryListener(l) PROVE Members'
    BY <1>2 DEF RemoveQueryListener, StopListening, Send, stream, store
  <1>3. ASSUME NEW l \in Listeners, EventRuns(l) PROVE Members'
    BY <1>3 DEF EventRuns, main, store, views, stream
  <1>4. CASE Streaming
    BY <1>4 DEF Streaming, OnWatchStreamOpen, OnWatchStreamBroken, BackoffElapsed, IdleTimeout,
                OnConnectivityChange, OnlineStateTimeout, GoOffline, Announce, Closed, store, views,
                main, stream
  <1>5. CASE OnWatchStreamChange
    <2>1. Head(down).doc \in Docs
      BY <1>5, HeadOfDown DEF OnWatchStreamChange, OnAdded, OnRemoved, OnCurrent, OnDocument,
                              OnRejected, OnSnapshot, Heard
    <2>2. CASE OnSnapshot
      BY <2>2 DEF OnSnapshot, Heard, main
    <2>3. CASE OnRejected
      BY <2>1, <2>3 DEF OnRejected, Heard, store, main
    <2>4. CASE OnAdded \/ OnRemoved \/ OnCurrent \/ OnDocument
      BY <2>4 DEF OnAdded, OnRemoved, OnCurrent, OnDocument, Heard, store, views, main
    <2>. QED
      BY <1>5, <2>2, <2>3, <2>4 DEF OnWatchStreamChange
  <1>6. CASE Backend
    <2>1. up # <<>> => Head(up).doc \in Docs
      BY HeadOfUp
    <2>. QED
      BY <1>6, <2>1 DEF Backend, BackendWatches, BackendRejects, BackendForgets, BackendReads,
                        DocumentChanges, store, views, main
  <1>7. CASE UNCHANGED vars
    BY <1>7 DEF vars, store, views, main, stream
  <1>. QED
    BY <1>1, <1>2, <1>3, <1>4, <1>5, <1>6, <1>7 DEF Next, Calls

Flags == failed \in BOOLEAN /\ timer \in BOOLEAN /\ idle \in BOOLEAN /\ orphaned \in BOOLEAN

LEMMA NextFlags ==
  ASSUME Flags, [Next]_vars
  PROVE  Flags'
  <1>. USE DEF Flags
  <1>1. ASSUME NEW l \in Listeners, AddQueryListener(l) PROVE Flags'
    <2>1. CASE UNCHANGED <<online, idle>>
      BY <2>1 DEF online
    <2>2. CASE Listen(Doc[l]) /\ conn \notin Started
      <3>1. idle' = FALSE /\ orphaned' = FALSE /\ failed' = failed /\ timer' = (timer \/ ~failed)
        BY <2>2 DEF Listen, Closed
      <3>2. (timer \/ ~failed) \in BOOLEAN
        BY Zenon
      <3>. QED
        BY <3>1, <3>2
    <2>3. CASE Listen(Doc[l]) /\ conn \in Started
      BY <2>3 DEF Listen, online
    <2>. QED
      BY <1>1, <2>1, <2>2, <2>3 DEF AddQueryListener, stream
  <1>2. ASSUME NEW l \in Listeners, RemoveQueryListener(l) PROVE Flags'
    <2>1. CASE UNCHANGED <<online, idle>>
      BY <2>1 DEF online
    <2>2. ASSUME NEW left, StopListening(Doc[l], left), conn = "open" PROVE Flags'
      <3>1. idle' = (left = {}) /\ UNCHANGED online
        BY <2>2 DEF StopListening
      <3>2. (left = {}) \in BOOLEAN
        BY Zenon
      <3>. QED
        BY <3>1, <3>2 DEF online
    <2>3. ASSUME NEW left, StopListening(Doc[l], left), conn # "open", left = {} PROVE Flags'
      <3>1. idle' = idle /\ failed' = FALSE /\ timer' = FALSE
        BY <2>3 DEF StopListening, stream
      <3>2. orphaned' \in BOOLEAN
        BY <2>3 DEF StopListening
      <3>. QED
        BY <3>1, <3>2
    <2>4. ASSUME NEW left, StopListening(Doc[l], left), conn # "open", left # {} PROVE Flags'
      BY <2>1, <2>4 DEF StopListening, stream
    <2>. QED
      BY <1>2, <2>1, <2>2, <2>3, <2>4 DEF RemoveQueryListener, stream
  <1>3. CASE Streaming
    <2>1. CASE OnConnectivityChange
      <3>1. idle' = FALSE /\ orphaned' = FALSE /\ failed' = FALSE /\ timer' = (Targets(listening) # {})
        BY <2>1 DEF OnConnectivityChange, Closed
      <3>2. (Targets(listening) # {}) \in BOOLEAN
        BY Zenon
      <3>. QED
        BY <3>1, <3>2
    <2>2. CASE OnWatchStreamOpen \/ OnWatchStreamBroken \/ BackoffElapsed \/ IdleTimeout \/ OnlineStateTimeout
      BY <2>2 DEF OnWatchStreamOpen, OnWatchStreamBroken, BackoffElapsed, IdleTimeout,
                  OnlineStateTimeout, Closed, online, stream
    <2>. QED
      BY <1>3, <2>1, <2>2 DEF Streaming
  <1>4. CASE OnWatchStreamChange
    BY <1>4 DEF OnWatchStreamChange, OnAdded, OnRemoved, OnCurrent, OnDocument, OnRejected,
                OnSnapshot, Heard
  <1>5. CASE (\E l \in Listeners : EventRuns(l)) \/ Backend \/ UNCHANGED vars
    BY <1>5 DEF EventRuns, Backend, BackendWatches, BackendRejects, BackendForgets, BackendReads,
                DocumentChanges, vars, stream, online
  <1>. QED
    BY <1>1, <1>2, <1>3, <1>4, <1>5 DEF Next, Calls

LEMMA NextStream ==
  ASSUME conn \in States /\ troubles \in Nat, [Next]_vars
  PROVE  conn' \in States /\ troubles' \in Nat
  <1>1. troubles' \in {troubles, troubles + 1}
    BY DEF Next, Calls, Streaming, OnWatchStreamChange, Backend, AddQueryListener,
           RemoveQueryListener, EventRuns, OnWatchStreamOpen, OnWatchStreamBroken, BackoffElapsed,
           IdleTimeout, OnConnectivityChange, OnlineStateTimeout, OnAdded, OnRemoved, OnCurrent,
           OnDocument, OnRejected, OnSnapshot, Heard, BackendWatches, BackendRejects,
           BackendForgets, BackendReads, DocumentChanges, Trouble, vars
  <1>2. conn' \in {conn, "initial", "starting", "open", "error", "backoff"}
    BY DEF Next, Calls, Streaming, OnWatchStreamChange, Backend, AddQueryListener, Listen,
           RemoveQueryListener, StopListening, EventRuns, OnWatchStreamOpen, OnWatchStreamBroken,
           BackoffElapsed, IdleTimeout, OnConnectivityChange, OnlineStateTimeout, OnAdded,
           OnRemoved, OnCurrent, OnDocument, OnRejected, OnSnapshot, Heard, BackendWatches,
           BackendRejects, BackendForgets, BackendReads, DocumentChanges, vars, stream
  <1>. QED
    BY <1>1, <1>2 DEF States

----------------------------------------------------------------------------
(* All of it together. *)

All == Connected /\ Data /\ Delivered /\ Counted /\ Members

LEMMA InitAll == Init => All
  BY InitConnected, InitData, InitDelivered, InitCounted, InitMembers DEF All

LEMMA NextAll == All /\ [Next]_vars => All'
  <1>. SUFFICES ASSUME All, [Next]_vars PROVE All'
    OBVIOUS
  <1>1. Connected' /\ OwnListeners
    BY NextConnected DEF All, Connected
  <1>2. Data'
    BY <1>1, NextData DEF All
  <1>3. Delivered' /\ Counted' /\ Members'
    BY <1>1, <1>2, NextDelivered, NextCounted, NextMembers DEF All
  <1>. QED
    BY <1>1, <1>2, <1>3 DEF All

THEOREM Always == Spec => []All
  BY InitAll, NextAll, PTL DEF Spec

\* Everything keeps its type.
THEOREM TypeCorrect == Spec => []TypeOK
  <1>. DEFINE Others == conn \in States /\ troubles \in Nat
  <1>1. Init => Flags /\ Others
    <2>1. Init => Flags
      BY DEF Init, Flags
    <2>2. Init => Others
      BY DEF Init, States
    <2>. QED
      BY <2>1, <2>2
  <1>2. Flags /\ Others /\ [Next]_vars => (Flags /\ Others)'
    BY NextFlags, NextStream
  <1>3. All /\ Flags /\ Others => TypeOK
    <2>. SUFFICES ASSUME All, Flags, Others PROVE TypeOK
      OBVIOUS
    <2>1. /\ docs \in [Docs -> Nat] /\ cache \in [Docs -> Nat] /\ tokens \subseteq Docs
          /\ asked \subseteq Listeners /\ raised \subseteq Listeners /\ leaving \subseteq Gets
          /\ current \subseteq Docs /\ results \subseteq Docs
          /\ fresh \in [Docs -> Nat] /\ watched \subseteq Docs /\ crossed \subseteq Docs
          /\ floor \in [Listeners -> Nat]
      BY DEF All, Data, Members, Connected
    <2>2. /\ listening \in [Docs -> SUBSET Listeners]
          /\ \A l \in Listeners, d \in Docs : l \in listening[d] => Doc[l] = d
          /\ state \in {"Unknown", "Online", "Offline"}
      BY DEF All, Connected, OwnListeners
    <2>3. /\ inbox \in [Listeners -> Seq([kind : {"value", "error"}, doc : Nat, cached : BOOLEAN])]
          /\ answers \in [Listeners -> Nat]
      BY DEF All, Delivered, Told
    <2>4. told \in [Listeners -> [kind : {"none", "value", "error"}, doc : Nat, cached : BOOLEAN]]
      <3>1. Nothing \in [kind : {"none", "value", "error"}, doc : Nat, cached : BOOLEAN]
        BY DEF Nothing
      <3>2. Told \subseteq [kind : {"none", "value", "error"}, doc : Nat, cached : BOOLEAN]
        BY DEF Told
      <3>3. told \in [Listeners -> Told \cup {Nothing}]
        BY DEF All, Delivered
      <3>. QED
        BY <3>1, <3>2, <3>3
    <2>5. /\ target \in [Docs -> [pending : Int, current : BOOLEAN, changed : BOOLEAN]]
          /\ up \in Seq([listen : BOOLEAN, doc : Docs])
          /\ down \in Seq([kind : {"added", "removed", "current", "document", "rejected", "snapshot"},
                           doc : Docs, version : Nat])
      BY DEF All, Data, Entries, Asks, Says, Kinds
    <2>6. failed \in BOOLEAN /\ timer \in BOOLEAN /\ idle \in BOOLEAN /\ orphaned \in BOOLEAN
      BY DEF Flags
    <2>. QED
      BY <2>1, <2>2, <2>3, <2>4, <2>5, <2>6, Zenon DEF TypeOK
  <1>. QED
    BY <1>1, <1>2, <1>3, Always, PTL DEF Spec

\* A read is answered at most once, whatever becomes of its document and of the
\* stream before it is removed.
THEOREM OneAnswer == Spec => []AnsweredOnce
  <1>1. All => AnsweredOnce
    BY DEF All, Delivered, AnsweredOnce
  <1>. QED
    BY <1>1, Always, PTL

\* A listener that has been told anything has been told, or is about to be told,
\* what the view of its document shows.
THEOREM NothingMissed == Spec => []ListenersKnow
  <1>1. All => ListenersKnow
    BY DEF All, Delivered
  <1>. QED
    BY <1>1, Always, PTL

\* The aggregator's counts are those of the requests without an answer, except
\* where a rejection crossed another request.
THEOREM CountsAgree == Spec => []PendingCounted
  <1>1. All => PendingCounted
    BY UnansweredIsOwed DEF All, Counted, PendingCounted
  <1>. QED
    BY <1>1, Always, PTL
----------------------------------------------------------------------------
(* What is still on its way about a document, when no answer is behind it. *)

IsAnswer(m, d) == m.doc = d /\ m.kind \in {"added", "removed", "rejected"}

\* No request for d is without its answer, and no answer about d is behind place i.
Settled(u, s, d, i) ==
    /\ \A k \in DOMAIN u : u[k].doc # d
    /\ \A k \in DOMAIN s : k > i => ~IsAnswer(s[k], d)

\* The message in place i will be taken for d's present listen: its document, CURRENT.
Tells(u, s, d, i) == s[i].doc = d /\ s[i].kind = "document" /\ Settled(u, s, d, i)
Ends(u, s, d, i)  == s[i].doc = d /\ s[i].kind = "current" /\ Settled(u, s, d, i)

Fits(u, s, d, n) == \A i \in DOMAIN s : Tells(u, s, d, i) => s[i].version >= n
Led(u, s, d)     == \A i \in DOMAIN s : Ends(u, s, d, i) => \E j \in DOMAIN s : j < i /\ Tells(u, s, d, j)

LEMMA EmptyFits ==
  ASSUME NEW u, NEW d, NEW n
  PROVE  Fits(u, <<>>, d, n) /\ Led(u, <<>>, d)
  BY DEF Fits, Led

\* With a request under way, nothing here is about the present listen.
LEMMA AskedFits ==
  ASSUME NEW u, NEW s, NEW d, NEW n, NEW k \in DOMAIN u, u[k].doc = d
  PROVE  Fits(u, s, d, n) /\ Led(u, s, d)
  BY DEF Fits, Led, Tells, Ends, Settled

LEMMA UpFits ==
  ASSUME NEW u, NEW v, NEW s, NEW d, NEW n,
         (\A k \in DOMAIN v : v[k].doc # d) => (\A k \in DOMAIN u : u[k].doc # d)
  PROVE  (Fits(u, s, d, n) => Fits(v, s, d, n)) /\ (Led(u, s, d) => Led(v, s, d))
  <1>1. ASSUME NEW i \in DOMAIN s, Settled(v, s, d, i)
        PROVE  Settled(u, s, d, i) /\ \A j \in DOMAIN s : Settled(u, s, d, j) => Settled(v, s, d, j)
    BY <1>1 DEF Settled
  <1>. QED
    BY <1>1 DEF Fits, Led, Tells, Ends

LEMMA TailFits ==
  ASSUME NEW u, NEW s \in Seq(Says), s # <<>>, NEW d, NEW n
  PROVE  /\ Fits(u, s, d, n) => Fits(u, Tail(s), d, n)
         /\ Led(u, s, d) /\ ~Tells(u, s, d, 1) => Led(u, Tail(s), d)
  <1>1. /\ Len(s) \in Nat \ {0} /\ DOMAIN s = 1..Len(s) /\ DOMAIN Tail(s) = 1..(Len(s) - 1)
        /\ \A i \in DOMAIN Tail(s) : i + 1 \in DOMAIN s /\ Tail(s)[i] = s[i + 1]
    OBVIOUS
  <1>2. \A i \in DOMAIN Tail(s) : Settled(u, Tail(s), d, i) <=> Settled(u, s, d, i + 1)
    <2>. SUFFICES ASSUME NEW i \in DOMAIN Tail(s)
                  PROVE  Settled(u, Tail(s), d, i) <=> Settled(u, s, d, i + 1)
      OBVIOUS
    <2>1. ASSUME Settled(u, Tail(s), d, i) PROVE Settled(u, s, d, i + 1)
      <3>. SUFFICES ASSUME NEW k \in DOMAIN s, k > i + 1
                    PROVE  ~IsAnswer(s[k], d)
        BY <2>1 DEF Settled
      <3>1. k - 1 \in DOMAIN Tail(s) /\ k - 1 > i /\ Tail(s)[k - 1] = s[k]
        BY <1>1
      <3>. QED
        BY <2>1, <3>1 DEF Settled
    <2>2. ASSUME Settled(u, s, d, i + 1) PROVE Settled(u, Tail(s), d, i)
      BY <1>1, <2>2 DEF Settled
    <2>. QED
      BY <2>1, <2>2
  <1>3. \A i \in DOMAIN Tail(s) : /\ Tells(u, Tail(s), d, i) <=> Tells(u, s, d, i + 1)
                                  /\ Ends(u, Tail(s), d, i) <=> Ends(u, s, d, i + 1)
    BY <1>1, <1>2 DEF Tells, Ends
  <1>4. Fits(u, s, d, n) => Fits(u, Tail(s), d, n)
    BY <1>1, <1>3 DEF Fits
  <1>5. ASSUME Led(u, s, d), ~Tells(u, s, d, 1), NEW i \in DOMAIN Tail(s), Ends(u, Tail(s), d, i)
        PROVE  \E j \in DOMAIN Tail(s) : j < i /\ Tells(u, Tail(s), d, j)
    <2>1. PICK j \in DOMAIN s : j < i + 1 /\ Tells(u, s, d, j)
      BY <1>1, <1>3, <1>5 DEF Led
    <2>2. j # 1
      BY <1>5, <2>1
    <2>3. j - 1 \in DOMAIN Tail(s) /\ j - 1 < i /\ (j - 1) + 1 = j
      BY <1>1, <2>1, <2>2
    <2>. QED
      BY <1>3, <2>1, <2>3
  <1>. QED
    BY <1>4, <1>5 DEF Led

\* The queue a is s with m behind it.
Longer(s, a, m) ==
    /\ Len(s) \in Nat /\ DOMAIN s = 1..Len(s) /\ DOMAIN a = 1..(Len(s) + 1)
    /\ \A i \in DOMAIN s : a[i] = s[i]
    /\ a[Len(s) + 1] = m

LEMMA AppendIsLonger ==
  ASSUME NEW T, NEW s \in Seq(T), NEW m \in T
  PROVE  /\ Append(s, m) \in Seq(T) /\ Longer(s, Append(s, m), m)
         /\ Len(Append(s, m)) \in DOMAIN Append(s, m) /\ Append(s, m)[Len(Append(s, m))] = m
  BY DEF Longer

LEMMA LongerSettles ==
  ASSUME NEW u, NEW s, NEW a, NEW m, NEW d, Longer(s, a, m)
  PROVE  /\ \A i \in DOMAIN s : Settled(u, a, d, i) <=> (Settled(u, s, d, i) /\ ~IsAnswer(m, d))
         /\ Settled(u, a, d, Len(s) + 1) <=> \A k \in DOMAIN u : u[k].doc # d
  <1>1. ASSUME NEW k \in DOMAIN a PROVE k \in DOMAIN s \/ k = Len(s) + 1
    BY DEF Longer
  <1>2. ASSUME NEW i \in DOMAIN s
        PROVE  Settled(u, a, d, i) <=> (Settled(u, s, d, i) /\ ~IsAnswer(m, d))
    <2>1. i < Len(s) + 1 /\ Len(s) + 1 \in DOMAIN a /\ DOMAIN s \subseteq DOMAIN a
      BY DEF Longer
    <2>2. a[Len(s) + 1] = m /\ \A k \in DOMAIN s : a[k] = s[k]
      BY DEF Longer
    <2>. QED
      BY <1>1, <2>1, <2>2 DEF Settled
  <1>3. Settled(u, a, d, Len(s) + 1) <=> \A k \in DOMAIN u : u[k].doc # d
    <2>1. \A k \in DOMAIN a : ~(k > Len(s) + 1)
      BY DEF Longer
    <2>. QED
      BY <2>1 DEF Settled
  <1>. QED
    BY <1>2, <1>3

LEMMA LongerTells ==
  ASSUME NEW u, NEW s, NEW a, NEW m, NEW d, Longer(s, a, m)
  PROVE  /\ \A i \in DOMAIN s : Tells(u, a, d, i) <=> (Tells(u, s, d, i) /\ ~IsAnswer(m, d))
         /\ \A i \in DOMAIN s : Ends(u, a, d, i) <=> (Ends(u, s, d, i) /\ ~IsAnswer(m, d))
         /\ Tells(u, a, d, Len(s) + 1) => m.doc = d /\ m.kind = "document"
         /\ Ends(u, a, d, Len(s) + 1) => m.doc = d /\ m.kind = "current"
         /\ \A i \in DOMAIN a : i \in DOMAIN s \/ i = Len(s) + 1
         /\ DOMAIN s \subseteq DOMAIN a
  <1>1. \A i \in DOMAIN s : a[i] = s[i]
    BY DEF Longer
  <1>2. a[Len(s) + 1] = m
    BY DEF Longer
  <1>3. /\ \A i \in DOMAIN a : i \in DOMAIN s \/ i = Len(s) + 1
        /\ DOMAIN s \subseteq DOMAIN a
    BY DEF Longer
  <1>4. \A i \in DOMAIN s : Settled(u, a, d, i) <=> (Settled(u, s, d, i) /\ ~IsAnswer(m, d))
    BY LongerSettles
  <1>5. ASSUME NEW i \in DOMAIN s PROVE Tells(u, a, d, i) <=> (Tells(u, s, d, i) /\ ~IsAnswer(m, d))
    <2>1. a[i] = s[i] /\ (Settled(u, a, d, i) <=> (Settled(u, s, d, i) /\ ~IsAnswer(m, d)))
      BY <1>1, <1>4
    <2>. QED
      BY <2>1 DEF Tells
  <1>6. ASSUME NEW i \in DOMAIN s PROVE Ends(u, a, d, i) <=> (Ends(u, s, d, i) /\ ~IsAnswer(m, d))
    <2>1. a[i] = s[i] /\ (Settled(u, a, d, i) <=> (Settled(u, s, d, i) /\ ~IsAnswer(m, d)))
      BY <1>1, <1>4
    <2>. QED
      BY <2>1 DEF Ends
  <1>7. Tells(u, a, d, Len(s) + 1) => m.doc = d /\ m.kind = "document"
    BY <1>2 DEF Tells
  <1>8. Ends(u, a, d, Len(s) + 1) => m.doc = d /\ m.kind = "current"
    BY <1>2 DEF Ends
  <1>. QED
    BY <1>3, <1>5, <1>6, <1>7, <1>8

LEMMA LongerFits ==
  ASSUME NEW u, NEW s, NEW a, NEW m, NEW d, NEW n, Longer(s, a, m),
         m.doc = d /\ m.kind = "document" => m.version >= n
  PROVE  Fits(u, s, d, n) \/ IsAnswer(m, d) => Fits(u, a, d, n)
  <1>1. \A i \in DOMAIN s : a[i] = s[i]
    BY DEF Longer
  <1>2. a[Len(s) + 1] = m
    BY DEF Longer
  <1>. QED
    <2>. SUFFICES ASSUME Fits(u, s, d, n) \/ IsAnswer(m, d), NEW i \in DOMAIN a, Tells(u, a, d, i)
                  PROVE  a[i].version >= n
      BY DEF Fits
    <2>1. CASE i \in DOMAIN s
      <3>1. Tells(u, s, d, i) /\ ~IsAnswer(m, d)
        BY <2>1, LongerTells
      <3>. QED
        BY <1>1, <2>1, <3>1 DEF Fits
    <2>2. CASE i = Len(s) + 1
      <3>1. m.doc = d /\ m.kind = "document"
        BY <2>2, LongerTells
      <3>. QED
        BY <1>2, <2>2, <3>1
    <2>. QED
      BY <2>1, <2>2, LongerTells

LEMMA LongerLed ==
  ASSUME NEW u, NEW s, NEW a, NEW m, NEW d, Longer(s, a, m)
  PROVE  /\ Led(u, s, d) /\ ~(m.doc = d /\ m.kind = "current") => Led(u, a, d)
         /\ IsAnswer(m, d) => Led(u, a, d)
         /\ Led(u, s, d) /\ Len(s) \in DOMAIN s /\ s[Len(s)].doc = d /\ s[Len(s)].kind = "document"
                => Led(u, a, d)
  <1>1. ASSUME NEW i \in DOMAIN s, Ends(u, a, d, i), Led(u, s, d)
        PROVE  \E j \in DOMAIN a : j < i /\ Tells(u, a, d, j)
    <2>1. Ends(u, s, d, i) /\ ~IsAnswer(m, d)
      BY <1>1, LongerTells
    <2>2. PICK j \in DOMAIN s : j < i /\ Tells(u, s, d, j)
      BY <1>1, <2>1 DEF Led
    <2>3. j \in DOMAIN a /\ Tells(u, a, d, j)
      BY <2>1, <2>2, LongerTells
    <2>. QED
      BY <2>2, <2>3
  <1>2. CASE Led(u, s, d) /\ ~(m.doc = d /\ m.kind = "current")
    <2>1. ~Ends(u, a, d, Len(s) + 1)
      BY <1>2, LongerTells
    <2>2. \A i \in DOMAIN a : i \in DOMAIN s \/ i = Len(s) + 1
      BY LongerTells
    <2>. QED
      BY <1>1, <1>2, <2>1, <2>2 DEF Led
  <1>3. CASE IsAnswer(m, d)
    <2>1. \A i \in DOMAIN s : ~Ends(u, a, d, i)
      BY <1>3, LongerTells
    <2>2. ~Ends(u, a, d, Len(s) + 1)
      BY <1>3, LongerTells DEF IsAnswer
    <2>3. \A i \in DOMAIN a : i \in DOMAIN s \/ i = Len(s) + 1
      BY LongerTells
    <2>. QED
      BY <2>1, <2>2, <2>3 DEF Led
  <1>4. CASE Led(u, s, d) /\ Len(s) \in DOMAIN s /\ s[Len(s)].doc = d /\ s[Len(s)].kind = "document"
                /\ m.doc = d /\ m.kind = "current"
    <2>1. Len(s) \in DOMAIN s /\ Len(s) < Len(s) + 1
      BY <1>4 DEF Longer
    <2>2. ASSUME Ends(u, a, d, Len(s) + 1)
          PROVE  Len(s) \in DOMAIN a /\ Tells(u, a, d, Len(s))
      <3>1. \A k \in DOMAIN u : u[k].doc # d
        BY <2>2, LongerSettles DEF Ends
      <3>2. \A k \in DOMAIN s : ~(k > Len(s))
        BY DEF Longer
      <3>3. Settled(u, s, d, Len(s))
        BY <3>1, <3>2 DEF Settled
      <3>4. Tells(u, s, d, Len(s)) /\ ~IsAnswer(m, d)
        BY <1>4, <3>3 DEF Tells, IsAnswer
      <3>. QED
        BY <2>1, <3>4, LongerTells
    <2>3. \A i \in DOMAIN a : i \in DOMAIN s \/ i = Len(s) + 1
      BY LongerTells
    <2>. QED
      BY <1>1, <1>4, <2>1, <2>2, <2>3 DEF Led
  <1>. QED
    BY <1>2, <1>3, <1>4

----------------------------------------------------------------------------
(* Nothing stale passes for synchronized. *)

Has(d, n) == cache[d] >= n \/ fresh[d] >= n

\* What will make d's view synchronized shows version n or a later one.
Uptodate(d, n) ==
    /\ Fits(up, down, d, n)
    /\ Has(d, n) \/ Led(up, down, d)
    /\ target[d].pending = 0 /\ target[d].current /\ target[d].changed => Has(d, n)
    /\ d \in current => fresh[d] = 0 \/ fresh[d] >= n

Shut == conn # "open" => \A d \in Docs : ~target[d].changed /\ fresh[d] = 0

Recent ==
    /\ \A l \in Listeners : l \notin asked => floor[l] = 0
    /\ \A l \in Listeners : floor[l] <= docs[Doc[l]]
    /\ Shut
    /\ \A l \in Listeners :
           l \in listening[Doc[l]] /\ Doc[l] \notin crossed => Uptodate(Doc[l], floor[l])

LEMMA InitRecent == Init => Recent
  BY ListenersAssumption DEF Init, Recent, Shut, NewTarget, Versions

LEMMA ZeroUptodate ==
  ASSUME Data', NEW d \in Docs
  PROVE  Uptodate(d, 0)'
  <1>1. cache'[d] >= 0
    BY DEF Data
  <1>2. \A i \in DOMAIN down' : down'[i].version >= 0
    <2>1. \A i \in DOMAIN down' : down'[i] \in Says
      BY DEF Data
    <2>. QED
      BY <2>1 DEF Says
  <1>3. Fits(up', down', d, 0)
    BY <1>2 DEF Fits
  <1>4. fresh'[d] >= 0
    BY DEF Data
  <1>. QED
    BY <1>1, <1>3, <1>4 DEF Uptodate, Has

LEMMA BlankUptodate ==
  ASSUME NEW d, NEW n, down' = <<>>, fresh'[d] = 0, ~target'[d].changed
  PROVE  Uptodate(d, n)'
  <1>1. Fits(up', down', d, n) /\ Led(up', down', d)
    BY EmptyFits
  <1>. QED
    BY <1>1 DEF Uptodate

LEMMA ClosedUptodate ==
  ASSUME Closed, NEW d \in Docs, NEW n
  PROVE  Uptodate(d, n)' /\ Shut'
  <1>1. \A c \in Docs : down' = <<>> /\ fresh'[c] = 0 /\ ~target'[c].changed
    BY DEF Closed, NewTarget
  <1>. QED
    BY <1>1, BlankUptodate DEF Shut

\* On a stream that is not open there is nothing to be wrong.
LEMMA ShutUptodate ==
  ASSUME Counted, Shut, conn # "open", UNCHANGED <<down, fresh, target>>, NEW d \in Docs, NEW n
  PROVE  Uptodate(d, n)' /\ Shut'
  <1>1. down' = <<>> /\ \A c \in Docs : fresh'[c] = 0 /\ ~target'[c].changed
    BY DEF Counted, Shut
  <1>. QED
    BY <1>1, BlankUptodate DEF Shut

LEMMA SameUptodate ==
  ASSUME NEW d, NEW n, Uptodate(d, n), d \in current' => d \in current,
         UNCHANGED <<cache, fresh, up, down, target>>
  PROVE  Uptodate(d, n)'
  BY DEF Uptodate, Has

\* The count is zero when nothing is on its way that it counts.
LEMMA NothingOwed ==
  ASSUME Counted, Data, NEW d \in Docs \ crossed
  PROVE  target[d].pending = 0 <=> Settled(up, down, d, 0)
  <1>. DEFINE U == {i \in DOMAIN up : up[i] \in AsksAbout(d)}
              D == {i \in DOMAIN down : down[i] \in Answers(d)}
  <1>1. target[d].pending = Cardinality(U) + Cardinality(D)
    BY DEF Counted, Owed, Count
  <1>2. IsFiniteSet(U) /\ IsFiniteSet(D)
    BY CountType DEF Data
  <1>3. U = {} <=> \A k \in DOMAIN up : up[k].doc # d
    <2>1. \A k \in DOMAIN up : up[k] \in Asks
      BY DEF Data
    <2>. QED
      BY <2>1 DEF AsksAbout
  <1>4. D = {} <=> \A k \in DOMAIN down : k > 0 => ~IsAnswer(down[k], d)
    <2>1. \A k \in DOMAIN down : down[k] \in Says /\ k > 0
      BY DEF Data
    <2>. QED
      BY <2>1 DEF Answers, IsAnswer
  <1>. HIDE DEF U, D
  <1>5. Cardinality(U) \in Nat /\ Cardinality(D) \in Nat
        /\ (Cardinality(U) = 0 <=> U = {}) /\ (Cardinality(D) = 0 <=> D = {})
    BY <1>2, FS_CardinalityType, FS_EmptySet
  <1>. QED
    BY <1>1, <1>3, <1>4, <1>5 DEF Settled

----------------------------------------------------------------------------
(* Calls. *)

\* A request for another document is nothing to this one.
LEMMA SendUptodate ==
  ASSUME Data, NEW c \in Docs, NEW listen \in BOOLEAN, Send(listen, c),
         NEW d \in Docs, d # c, NEW n, Uptodate(d, n), d \in current' => d \in current,
         UNCHANGED <<cache, fresh, down>>
  PROVE  Uptodate(d, n)'
  <1>1. target'[d] = target[d]
    BY DEF Send, Data
  <1>2. (\A k \in DOMAIN up' : up'[k].doc # d) => (\A k \in DOMAIN up : up[k].doc # d)
    <2>1. Request(listen, c) \in Asks /\ up \in Seq(Asks) /\ up' = Append(up, Request(listen, c))
      BY DEF Send, Data, Request, Asks
    <2>2. Longer(up, up', Request(listen, c))
      BY <2>1, AppendIsLonger
    <2>. QED
      BY <2>2 DEF Longer
  <1>3. /\ Fits(up, down, d, n) => Fits(up', down, d, n)
        /\ Led(up, down, d) => Led(up', down, d)
    BY <1>2, UpFits
  <1>. QED
    BY <1>1, <1>3 DEF Uptodate, Has

\* A listen of this document puts everything behind its answer.
LEMMA AskUptodate ==
  ASSUME Data, Counted, NEW d \in Docs \ crossed, Send(TRUE, d), d \notin current',
         UNCHANGED down, NEW n
  PROVE  Uptodate(d, n)'
  <1>1. target'[d].pending # 0
    <2>1. target[d].pending \in Nat
      BY OwedType DEF Counted, Owed
    <2>2. target'[d].pending = target[d].pending + 1
      BY DEF Send, Data, Entries
    <2>. QED
      BY <2>1, <2>2
  <1>2. \E k \in DOMAIN up' : up'[k].doc = d
    <2>1. Request(TRUE, d) \in Asks /\ up \in Seq(Asks) /\ up' = Append(up, Request(TRUE, d))
          /\ Request(TRUE, d).doc = d
      BY DEF Send, Data, Request, Asks
    <2>2. Len(up') \in DOMAIN up' /\ up'[Len(up')] = Request(TRUE, d)
      BY <2>1, AppendIsLonger
    <2>. QED
      BY <2>1, <2>2
  <1>3. Fits(up', down', d, n) /\ Led(up', down', d)
    BY <1>2, AskedFits
  <1>. QED
    BY <1>1, <1>3 DEF Uptodate

LEMMA CalledUptodate ==
  ASSUME All, Recent, NEW m \in Listeners, AddQueryListener(m), Data',
         NEW l \in Listeners, l \in listening'[Doc[l]], Doc[l] \notin crossed',
         NEW n \in Nat, n = floor'[l]
  PROVE  Uptodate(Doc[l], n)'
  <1>. DEFINE d == Doc[l]
              c == Doc[m]
  <1>1. /\ d \in Docs /\ c \in Docs
        /\ listening' = [listening EXCEPT ![c] = @ \cup {m}]
        /\ UNCHANGED cache
    BY ListenersAssumption DEF AddQueryListener, store
  <1>2. l # m => l \in listening[d]
    BY <1>1 DEF All, Connected, OwnListeners
  <1>3. CASE listening[c] # {}
    <2>1. UNCHANGED <<fresh, up, down, target, crossed, current, floor>>
      BY <1>3 DEF AddQueryListener, stream
    <2>2. CASE l = m
      <3>1. n = 0
        BY <2>1, <2>2 DEF AddQueryListener, Recent
      <3>. QED
        BY <1>1, <3>1, ZeroUptodate
    <2>3. CASE l # m
      <3>1. l \in listening[d] /\ d \notin crossed /\ floor[l] = n
        BY <1>2, <2>1, <2>3
      <3>2. Uptodate(d, n)
        BY <3>1 DEF Recent
      <3>. QED
        BY <1>1, <2>1, <3>2, SameUptodate
    <2>. QED
      BY <2>2, <2>3
  <1>4. CASE listening[c] = {}
    <2>1. Listen(c) /\ current' = current \ {c} /\ floor' = [floor EXCEPT ![m] = docs[c]]
      BY <1>4 DEF AddQueryListener
    <2>2. CASE conn \notin Started
      BY <1>1, <2>1, <2>2, ClosedUptodate DEF Listen
    <2>3. CASE conn \in Started /\ conn # "open"
      BY <1>1, <2>1, <2>3, ShutUptodate DEF Listen, All, Recent
    <2>4. CASE conn = "open"
      <3>1. Send(TRUE, c) /\ UNCHANGED <<down, fresh, crossed>>
        BY <2>1, <2>4 DEF Listen, Started
      <3>2. CASE l = m
        BY <1>1, <2>1, <3>1, <3>2, AskUptodate DEF All
      <3>3. CASE l # m
        <4>1. l \in listening[d] /\ d # c /\ d \notin crossed /\ floor[l] = n
          BY <1>2, <1>4, <2>1, <3>1, <3>3 DEF All, Members
        <4>2. Uptodate(d, n)
          BY <4>1 DEF Recent
        <4>. QED
          BY <1>1, <2>1, <3>1, <4>1, <4>2, SendUptodate DEF All
      <3>. QED
        BY <3>2, <3>3
    <2>. QED
      BY <2>2, <2>3, <2>4
  <1>. QED
    BY <1>3, <1>4

LEMMA RemovedUptodate ==
  ASSUME All, Recent, NEW m \in Listeners, RemoveQueryListener(m),
         NEW l \in Listeners, l \in listening'[Doc[l]], Doc[l] \notin crossed',
         NEW n \in Nat, n = floor'[l]
  PROVE  Uptodate(Doc[l], n)'
  <1>. DEFINE d == Doc[l]
              c == Doc[m]
  <1>1. /\ d \in Docs /\ c \in Docs
        /\ listening' = [listening EXCEPT ![c] = @ \ {m}]
        /\ UNCHANGED <<cache, current, floor>>
    BY ListenersAssumption DEF RemoveQueryListener, store
  <1>2. l \in listening[d] /\ (listening[c] = {m} => d # c)
    BY <1>1 DEF All, Connected, OwnListeners
  <1>3. UNCHANGED crossed
    BY DEF RemoveQueryListener, StopListening, stream
  <1>4. Uptodate(d, n)
    BY <1>1, <1>2, <1>3 DEF Recent
  <1>5. CASE UNCHANGED stream
    BY <1>1, <1>4, <1>5, SameUptodate DEF stream
  <1>6. CASE listening[c] = {m} /\ conn = "open"
    <2>1. Send(FALSE, c) /\ UNCHANGED <<fresh, down>>
      BY <1>6 DEF RemoveQueryListener, StopListening
    <2>. QED
      BY <1>1, <1>2, <1>4, <1>6, <2>1, SendUptodate DEF All
  <1>7. (listening[c] = {m} /\ conn = "open") \/ UNCHANGED stream
    BY DEF RemoveQueryListener, StopListening
  <1>. QED
    BY <1>5, <1>6, <1>7

----------------------------------------------------------------------------
(* Messages. *)

\* Hearing a message that does not count leaves the others what they are.
LEMMA HeardFits ==
  ASSUME All, NEW kind, Heard(kind), NEW d \in Docs \ crossed, NEW n, Uptodate(d, n),
         kind = "document" /\ Head(down).doc = d => target[d].pending # 0
  PROVE  Fits(up', down', d, n) /\ (Has(d, n) \/ Led(up', down', d))
  <1>1. down \in Seq(Says) /\ down # <<>> /\ down' = Tail(down) /\ up' = up
        /\ down[1].kind = kind /\ down[1] = Head(down) /\ 1 \in DOMAIN down
    BY DEF Heard, All, Data
  <1>2. ~Tells(up, down, d, 1)
    <2>. SUFFICES ASSUME Tells(up, down, d, 1) PROVE FALSE
      OBVIOUS
    <2>1. kind = "document" /\ Head(down).doc = d /\ Settled(up, down, d, 1)
      BY <1>1 DEF Tells
    <2>2. ~IsAnswer(down[1], d)
      BY <1>1, <2>1 DEF IsAnswer
    <2>3. \A k \in DOMAIN down : k > 0 => k > 1 \/ k = 1
      BY <1>1
    <2>4. Settled(up, down, d, 0)
      BY <2>1, <2>2, <2>3 DEF Settled
    <2>5. target[d].pending = 0
      BY <2>4, NothingOwed DEF All
    <2>. QED
      BY <2>1, <2>5
  <1>3. Fits(up, down, d, n) => Fits(up, Tail(down), d, n)
    BY <1>1, TailFits
  <1>4. Led(up, down, d) => Led(up, Tail(down), d)
    BY <1>1, <1>2, TailFits
  <1>. QED
    BY <1>1, <1>3, <1>4 DEF Uptodate

LEMMA AnsweredUptodate ==
  ASSUME All, OnAdded \/ OnRemoved, NEW d \in Docs \ crossed, NEW n, Uptodate(d, n)
  PROVE  Uptodate(d, n)'
  <1>1. PICK kind \in {"added", "removed"} : Heard(kind)
    BY DEF OnAdded, OnRemoved
  <1>2. Fits(up', down', d, n) /\ (Has(d, n) \/ Led(up', down', d))
    BY <1>1, HeardFits
  <1>3. UNCHANGED <<cache, fresh, current>>
    BY DEF OnAdded, OnRemoved, store, views
  <1>4. target'[d].pending = 0 /\ target'[d].current /\ target'[d].changed
            => target'[d] = target[d]
    <2>. DEFINE c == Head(down).doc
    <2>1. target \in [Docs -> Entries] /\ target[d] \in Entries
      BY DEF All, Data
    <2>2. CASE c # d
      BY <2>1, <2>2 DEF OnAdded, OnRemoved
    <2>3. CASE OnAdded /\ c = d
      <3>1. target' = [target EXCEPT ![d].pending = target[d].pending - 1,
                                     ![d].changed = target[d].changed /\ target[d].pending # 1]
        BY <2>3 DEF OnAdded
      <3>2. target'[d].pending = target[d].pending - 1
            /\ (target[d].pending = 1 => ~target'[d].changed)
        BY <2>1, <3>1 DEF Entries
      <3>3. target[d].pending \in Int
        BY <2>1 DEF Entries
      <3>. QED
        BY <3>2, <3>3
    <2>4. CASE OnRemoved /\ c = d
      <3>1. target[d].pending \in Int
        BY <2>1 DEF Entries
      <3>2. CASE target[d].pending = 1
        BY <2>1, <2>4, <3>2 DEF OnRemoved, NewTarget
      <3>3. CASE target[d].pending # 1
        <4>1. target'[d].pending = target[d].pending - 1
          BY <2>1, <2>4, <3>3 DEF OnRemoved, Entries
        <4>. QED
          BY <3>1, <3>3, <4>1
      <3>. QED
        BY <3>2, <3>3
    <2>. QED
      BY <2>2, <2>3, <2>4
  <1>. QED
    BY <1>2, <1>3, <1>4 DEF Uptodate, Has

LEMMA CurrentUptodate ==
  ASSUME All, OnCurrent, NEW d \in Docs \ crossed, NEW n, Uptodate(d, n)
  PROVE  Uptodate(d, n)'
  <1>. DEFINE c == Head(down).doc
  <1>1. Heard("current") /\ UNCHANGED <<cache, fresh, current>>
    BY DEF OnCurrent, store, views
  <1>2. Fits(up', down', d, n) /\ (Has(d, n) \/ Led(up', down', d))
    BY <1>1, HeardFits
  <1>3. CASE c = d /\ IsActiveTarget(d)
    <2>1. down \in Seq(Says) /\ down # <<>> /\ down[1] = Head(down) /\ 1 \in DOMAIN down
          /\ down[1].kind = "current"
      BY <1>1 DEF Heard, All, Data
    <2>2. Settled(up, down, d, 0)
      BY <1>3, NothingOwed DEF IsActiveTarget, All
    <2>3. Settled(up, down, d, 1)
      <3>1. \A k \in DOMAIN down : k > 1 => k > 0
        BY <2>1
      <3>. QED
        BY <2>2, <3>1 DEF Settled
    <2>4. Ends(up, down, d, 1)
      BY <1>3, <2>1, <2>3 DEF Ends
    <2>5. \A j \in DOMAIN down : ~(j < 1)
      BY <2>1
    <2>6. Has(d, n)
      BY <2>1, <2>4, <2>5 DEF Uptodate, Led
    <2>. QED
      BY <1>1, <1>2, <2>6 DEF Uptodate, Has
  <1>4. CASE ~(c = d /\ IsActiveTarget(d))
    <2>1. target'[d] = target[d]
      BY <1>4 DEF OnCurrent, All, Data
    <2>. QED
      BY <1>1, <1>2, <2>1 DEF Uptodate, Has
  <1>. QED
    BY <1>3, <1>4

LEMMA DocumentUptodate ==
  ASSUME All, OnDocument, NEW d \in Docs \ crossed, listening[d] # {}, NEW n, Uptodate(d, n)
  PROVE  Uptodate(d, n)'
  <1>. DEFINE c == Head(down).doc
  <1>1. Heard("document") /\ UNCHANGED <<cache, current>>
    BY DEF OnDocument, store, views
  <1>2. CASE c = d /\ IsActiveTarget(d)
    <2>1. down \in Seq(Says) /\ down # <<>> /\ down[1] = Head(down) /\ 1 \in DOMAIN down
          /\ down[1].kind = "document" /\ down' = Tail(down) /\ up' = up
      BY <1>1 DEF Heard, All, Data
    <2>2. Settled(up, down, d, 0)
      BY <1>2, NothingOwed DEF IsActiveTarget, All
    <2>3. Settled(up, down, d, 1)
      <3>1. \A k \in DOMAIN down : k > 1 => k > 0
        BY <2>1
      <3>. QED
        BY <2>2, <3>1 DEF Settled
    <2>4. Tells(up, down, d, 1)
      BY <1>2, <2>1, <2>3 DEF Tells
    <2>5. Head(down).version >= n
      BY <2>1, <2>4 DEF Uptodate, Fits
    <2>6. fresh'[d] >= n
      BY <1>2, <2>5 DEF OnDocument, All, Data
    <2>7. Fits(up', down', d, n)
      BY <2>1, TailFits DEF Uptodate
    <2>. QED
      BY <2>6, <2>7 DEF Uptodate, Has
  <1>3. CASE ~(c = d /\ IsActiveTarget(d))
    <2>1. target'[d] = target[d] /\ fresh'[d] = fresh[d]
      BY <1>3 DEF OnDocument, All, Data
    <2>2. c = d => target[d].pending # 0
      BY <1>3 DEF IsActiveTarget
    <2>3. Fits(up', down', d, n) /\ (Has(d, n) \/ Led(up', down', d))
      BY <1>1, <2>2, HeardFits
    <2>. QED
      BY <1>1, <2>1, <2>3 DEF Uptodate, Has
  <1>. QED
    BY <1>2, <1>3

LEMMA RejectedUptodate ==
  ASSUME All, OnRejected, NEW d \in Docs \ crossed, listening'[d] # {}, NEW n, Uptodate(d, n)
  PROVE  Uptodate(d, n)'
  <1>. DEFINE c == Head(down).doc
  <1>1. Heard("rejected") /\ UNCHANGED <<cache, fresh>> /\ current' \subseteq current
    BY DEF OnRejected, store
  <1>2. c # d
    BY DEF OnRejected, All, Connected, OwnListeners
  <1>3. target'[d] = target[d]
    BY <1>2 DEF OnRejected, All, Data
  <1>4. Fits(up', down', d, n) /\ (Has(d, n) \/ Led(up', down', d))
    BY <1>1, HeardFits
  <1>. QED
    BY <1>1, <1>3, <1>4 DEF Uptodate, Has

LEMMA SnapshotUptodate ==
  ASSUME All, OnSnapshot, NEW d \in Docs \ crossed, listening[d] # {}, NEW n \in Nat, Uptodate(d, n)
  PROVE  Uptodate(d, n)'
  <1>1. Heard("snapshot")
    BY DEF OnSnapshot
  <1>2. Fits(up', down', d, n) /\ (Has(d, n) \/ Led(up', down', d))
    BY <1>1, HeardFits
  <1>3. cache'[d] = (IF fresh[d] > cache[d] THEN fresh[d] ELSE cache[d]) /\ fresh'[d] = 0
    BY DEF OnSnapshot
  <1>4. cache[d] \in Nat /\ fresh[d] \in Nat
    BY DEF All, Data
  <1>5. Has(d, n) => Has(d, n)'
    BY <1>3, <1>4 DEF Has
  <1>6. ~(target'[d].pending = 0 /\ target'[d].changed)
    <2>1. target[d] \in Entries
      BY DEF All, Data
    <2>2. target'[d].pending = target[d].pending
          /\ (target'[d].changed => target[d].changed /\ ~(IsActiveTarget(d) /\ target[d].changed))
      BY <2>1 DEF OnSnapshot, Entries
    <2>. QED
      BY <2>2 DEF IsActiveTarget
  <1>. QED
    BY <1>2, <1>3, <1>5, <1>6 DEF Uptodate

LEMMA HeardUptodate ==
  ASSUME All, Recent, OnWatchStreamChange,
         NEW l \in Listeners, l \in listening'[Doc[l]], Doc[l] \notin crossed',
         NEW n \in Nat, n = floor'[l]
  PROVE  Uptodate(Doc[l], n)'
  <1>. DEFINE d == Doc[l]
  <1>1. floor' = floor /\ d \in Docs
    BY ListenersAssumption DEF OnWatchStreamChange, OnAdded, OnRemoved, OnCurrent, OnDocument,
                               OnRejected, OnSnapshot, Heard
  <1>2. crossed \subseteq crossed' /\ listening'[d] \subseteq listening[d]
    BY <1>1 DEF OnWatchStreamChange, OnAdded, OnRemoved, OnCurrent, OnDocument,
                OnRejected, OnSnapshot, views, All, Connected, OwnListeners
  <1>3. l \in listening[d] /\ d \in Docs \ crossed
    BY <1>1, <1>2
  <1>4. Uptodate(d, n)
    BY <1>1, <1>3 DEF Recent
  <1>. QED
    BY <1>3, <1>4, AnsweredUptodate, CurrentUptodate, DocumentUptodate, RejectedUptodate,
       SnapshotUptodate DEF OnWatchStreamChange

----------------------------------------------------------------------------
(* The backend. *)

\* A message behind what is said about d.
LEMMA SaidFits ==
  ASSUME NEW u, NEW s, NEW a, NEW m, NEW d, NEW n, Longer(s, a, m), Fits(u, s, d, n), Led(u, s, d),
         m.doc # d \/ m.kind \in {"added", "removed", "rejected", "snapshot"}
  PROVE  Fits(u, a, d, n) /\ Led(u, a, d)
  BY LongerFits, LongerLed


\* What the backend reads is answered behind everything else.
LEMMA ReadUptodate ==
  ASSUME All, Data', BackendWatches \/ BackendRejects \/ BackendForgets,
         NEW d \in Docs \ crossed, NEW n \in Nat, n <= docs[d], Uptodate(d, n)
  PROVE  Uptodate(d, n)'
  <1>. DEFINE c == Head(up).doc
  <1>1. /\ up \in Seq(Asks) /\ up # <<>> /\ up' = Tail(up) /\ c \in Docs /\ down \in Seq(Says)
        /\ UNCHANGED <<cache, fresh, target, current>>
    BY HeadOfUp DEF BackendWatches, BackendRejects, BackendForgets, BackendReads, store, views, All, Data
  <1>2. c # d => Fits(up', down, d, n) /\ (Led(up, down, d) => Led(up', down, d))
    <2>. SUFFICES ASSUME c # d PROVE Fits(up', down, d, n) /\ (Led(up, down, d) => Led(up', down, d))
      OBVIOUS
    <2>1. /\ Head(up) = up[1]
          /\ \A k \in DOMAIN up : k = 1 \/ (k - 1 \in DOMAIN up' /\ up'[k - 1] = up[k])
      BY <1>1
    <2>2. (\A k \in DOMAIN up' : up'[k].doc # d) => (\A k \in DOMAIN up : up[k].doc # d)
      BY <2>1
    <2>. QED
      BY <2>2, UpFits DEF Uptodate
  <1>3. SUFFICES (Fits(up', down', d, n) /\ (Has(d, n) \/ Led(up', down', d))) \/ Uptodate(d, n)'
    BY <1>1 DEF Uptodate, Has
  <1>4. CASE BackendRejects \/ BackendForgets
    <2>1. PICK m \in Says : /\ down' = Append(down, m) /\ m.doc = c
                            /\ m.kind \in {"removed", "rejected"}
      <3>1. PICK kind \in {"removed", "rejected"} : down' = Append(down, Message(kind, c))
        BY <1>4 DEF BackendRejects, BackendForgets
      <3>2. Message(kind, c) \in Says /\ Message(kind, c).doc = c /\ Message(kind, c).kind = kind
        BY <1>1 DEF Message, Says, Kinds
      <3>. QED
        BY <3>1, <3>2
    <2>2. Longer(down, down', m)
      BY <1>1, <2>1, AppendIsLonger
    <2>3. CASE c = d
      <3>1. IsAnswer(m, d) /\ m.kind # "document"
        BY <2>1, <2>3 DEF IsAnswer
      <3>. QED
        BY <2>2, <3>1, LongerFits, LongerLed
    <2>4. CASE c # d
      <3>1. m.doc # d
        BY <2>1, <2>4
      <3>. QED
        BY <1>2, <2>2, <2>4, <3>1, LongerFits, LongerLed DEF Uptodate
    <2>. QED
      BY <2>3, <2>4
  <1>5. CASE BackendWatches /\ ~(c = d /\ docs[d] = 0)
    <2>. DEFINE m == Message("added", c)
                u == Update(c, docs[c])
                p == Message("current", c)
                q == Message("snapshot", c)
    <2>1. m \in Says /\ u \in Says /\ p \in Says /\ q \in Says
      BY <1>1, MessageType, UpdateType DEF All, Data, Kinds
    <2>2. /\ m.doc = c /\ u.doc = c /\ p.doc = c /\ q.doc = c /\ u.version = docs[c]
          /\ m.kind = "added" /\ u.kind = "document" /\ p.kind = "current" /\ q.kind = "snapshot"
      BY DEF Message, Update
    <2>3. down' = ((down \o <<m>>) \o (IF docs[c] = 0 THEN <<>> ELSE <<u>>)) \o <<p, q>>
      BY <1>5 DEF BackendWatches
    <2>. HIDE DEF m, u, p, q
    <2>. DEFINE s1 == Append(down, m)
                s2 == IF docs[c] = 0 THEN s1 ELSE Append(s1, u)
                s3 == Append(s2, p)
    <2>4. s1 \in Seq(Says) /\ Longer(down, s1, m)
      BY <1>1, <2>1, AppendIsLonger
    <2>5. s2 \in Seq(Says) /\ (docs[c] # 0 => Longer(s1, s2, u) /\ Len(s2) \in DOMAIN s2 /\ s2[Len(s2)] = u)
      <3>. HIDE DEF s1
      <3>. QED
        BY <2>1, <2>4, AppendIsLonger
    <2>6. s3 \in Seq(Says) /\ Longer(s2, s3, p)
      <3>. HIDE DEF s2
      <3>. QED
        BY <2>1, <2>5, AppendIsLonger
    <2>7. down' = Append(s3, q) /\ Longer(s3, down', q)
      <3>1. down \o <<m>> = s1
        BY <1>1, <2>1
      <3>. HIDE DEF s1
      <3>2. s1 \o (IF docs[c] = 0 THEN <<>> ELSE <<u>>) = s2
        <4>1. CASE docs[c] = 0
          BY <2>4, <4>1
        <4>2. CASE docs[c] # 0
          BY <2>1, <2>4, <4>2
        <4>. QED
          BY <4>1, <4>2
      <3>. HIDE DEF s2
      <3>3. s2 \o <<p, q>> = Append(s3, q)
        BY <2>1, <2>5
      <3>4. down' = Append(s3, q)
        BY <2>3, <3>1, <3>2, <3>3
      <3>. HIDE DEF s3
      <3>. QED
        BY <2>1, <2>6, <3>4, AppendIsLonger
    <2>. HIDE DEF s1, s3
    <2>8. CASE c = d
      <3>1. docs[c] # 0 /\ docs[d] >= n
        BY <1>1, <1>5, <2>8 DEF All, Data
      <3>2. Fits(up', s1, d, n) /\ Led(up', s1, d)
        <4>1. IsAnswer(m, d) /\ m.kind # "document"
          BY <2>2, <2>8 DEF IsAnswer
        <4>. QED
          BY <2>4, <4>1, LongerFits, LongerLed
      <3>3. Longer(s1, s2, u) /\ Len(s2) \in DOMAIN s2 /\ s2[Len(s2)] = u
        BY <2>5, <3>1
      <3>. HIDE DEF s2
      <3>4. u.version >= n /\ u.kind # "current"
        BY <2>2, <2>8, <3>1
      <3>5. Fits(up', s2, d, n) /\ Led(up', s2, d)
        BY <3>2, <3>3, <3>4, LongerFits, LongerLed
      <3>6. s2[Len(s2)].doc = d /\ s2[Len(s2)].kind = "document" /\ p.kind # "document"
        BY <2>2, <2>8, <3>3
      <3>7. Fits(up', s3, d, n)
        BY <2>6, <3>5, <3>6, LongerFits
      <3>8. Led(up', s3, d)
        BY <2>6, <3>3, <3>5, <3>6, LongerLed
      <3>9. q.kind = "snapshot"
        BY <2>2
      <3>. QED
        BY <2>7, <3>7, <3>8, <3>9, SaidFits
    <2>9. CASE c # d
      <3>1. m.doc # d /\ u.doc # d /\ p.doc # d /\ q.doc # d
        BY <2>2, <2>9
      <3>2. Fits(up', s1, d, n) /\ (Led(up', down, d) => Led(up', s1, d))
        BY <1>2, <2>4, <2>9, <3>1, SaidFits, LongerFits
      <3>3. Fits(up', s2, d, n) /\ (Led(up', s1, d) => Led(up', s2, d))
        BY <2>5, <3>1, <3>2, LongerFits, SaidFits
      <3>. HIDE DEF s2
      <3>4. Fits(up', s3, d, n) /\ (Led(up', s2, d) => Led(up', s3, d))
        BY <2>6, <3>1, <3>3, LongerFits, SaidFits
      <3>5. Fits(up', down', d, n) /\ (Led(up', s3, d) => Led(up', down', d))
        BY <2>7, <3>1, <3>4, LongerFits, SaidFits
      <3>. QED
        BY <1>2, <2>9, <3>2, <3>3, <3>4, <3>5 DEF Uptodate
    <2>. QED
      BY <2>8, <2>9
  <1>6. CASE c = d /\ docs[d] = 0
    <2>1. n = 0
      BY <1>6
    <2>. QED
      BY <2>1, ZeroUptodate
  <1>. QED
    BY <1>4, <1>5, <1>6

LEMMA ChangeUptodate ==
  ASSUME All, Data', NEW c \in Docs, DocumentChanges(c),
         NEW d \in Docs \ crossed, NEW n \in Nat, n <= docs[d], Uptodate(d, n)
  PROVE  Uptodate(d, n)'
  <1>1. /\ UNCHANGED <<cache, fresh, target, current, up>> /\ down \in Seq(Says)
        /\ docs'[c] \in Nat /\ (c = d => docs'[c] >= n)
    BY DEF DocumentChanges, store, views, All, Data
  <1>2. CASE c \notin watched
    <2>1. down' = down
      BY <1>2 DEF DocumentChanges
    <2>. QED
      BY <1>1, <2>1, SameUptodate
  <1>3. CASE c \in watched
    <2>. DEFINE u == Update(c, docs'[c])
                q == Message("snapshot", c)
    <2>1. u \in Says /\ q \in Says
      BY <1>1, MessageType, UpdateType DEF Kinds
    <2>2. /\ u.doc = c /\ u.version = docs'[c] /\ u.kind = "document"
          /\ q.kind = "snapshot"
      BY DEF Message, Update
    <2>3. down' = down \o <<u, q>>
      BY <1>3 DEF DocumentChanges
    <2>. HIDE DEF u, q
    <2>. DEFINE s1 == Append(down, u)
    <2>4. down' = Append(s1, q)
      BY <1>1, <2>1, <2>3
    <2>5. s1 \in Seq(Says) /\ Longer(down, s1, u)
      BY <1>1, <2>1, AppendIsLonger
    <2>. HIDE DEF s1
    <2>6. Longer(s1, down', q)
      BY <2>1, <2>4, <2>5, AppendIsLonger
    <2>7. u.doc = d => u.version >= n
      BY <1>1, <2>2
    <2>8. Fits(up, s1, d, n) /\ (Led(up, down, d) => Led(up, s1, d))
      BY <2>2, <2>5, <2>7, LongerFits, LongerLed DEF Uptodate
    <2>9. Fits(up, down', d, n) /\ (Led(up, s1, d) => Led(up, down', d))
      BY <2>2, <2>6, <2>8, LongerFits, LongerLed
    <2>. QED
      BY <1>1, <2>8, <2>9 DEF Uptodate, Has
  <1>. QED
    BY <1>2, <1>3

LEMMA BackendUptodate ==
  ASSUME All, Recent, Backend, Data',
         NEW l \in Listeners, l \in listening'[Doc[l]], Doc[l] \notin crossed',
         NEW n \in Nat, n = floor'[l]
  PROVE  Uptodate(Doc[l], n)'
  <1>1. UNCHANGED <<floor, listening, crossed>> /\ Doc[l] \in Docs
    BY ListenersAssumption DEF Backend, BackendWatches, BackendRejects, BackendForgets, BackendReads,
                               DocumentChanges, views
  <1>2. Uptodate(Doc[l], n) /\ n <= docs[Doc[l]]
    BY <1>1 DEF Recent
  <1>. QED
    BY <1>1, <1>2, ReadUptodate, ChangeUptodate DEF Backend

----------------------------------------------------------------------------
(* The stream, and all of it. *)

LEMMA StreamUptodate ==
  ASSUME All, Recent, Streaming,
         NEW l \in Listeners, l \in listening'[Doc[l]], Doc[l] \notin crossed',
         NEW n \in Nat, n = floor'[l]
  PROVE  Uptodate(Doc[l], n)'
  <1>1. floor' = floor /\ listening' = listening /\ cache' = cache /\ Doc[l] \in Docs
    BY ListenersAssumption DEF Streaming, OnWatchStreamOpen, OnWatchStreamBroken, BackoffElapsed,
       IdleTimeout, OnConnectivityChange, OnlineStateTimeout, views, store
  <1>2. CASE OnWatchStreamBroken \/ IdleTimeout \/ OnConnectivityChange
    BY <1>1, <1>2, ClosedUptodate DEF OnWatchStreamBroken, IdleTimeout, OnConnectivityChange
  <1>3. CASE BackoffElapsed
    BY <1>1, <1>3, ShutUptodate DEF BackoffElapsed, All, Recent
  <1>4. CASE OnWatchStreamOpen
    <2>1. conn # "open" /\ UNCHANGED <<down, fresh>>
      BY <1>4 DEF OnWatchStreamOpen
    <2>2. down' = <<>> /\ fresh'[Doc[l]] = 0 /\ ~target[Doc[l]].changed
      BY <1>1, <2>1 DEF All, Counted, Recent, Shut
    <2>3. target[Doc[l]] \in Entries
      BY <1>1 DEF All, Data
    <2>4. ~target'[Doc[l]].changed
      BY <1>1, <1>4, <2>2, <2>3 DEF OnWatchStreamOpen, Entries
    <2>. QED
      BY <2>2, <2>4, BlankUptodate
  <1>5. CASE OnlineStateTimeout
    <2>1. current' = {} /\ UNCHANGED stream
      BY <1>5 DEF OnlineStateTimeout, GoOffline
    <2>2. Uptodate(Doc[l], n)
      BY <1>1, <2>1 DEF stream, Recent
    <2>. QED
      BY <1>1, <2>1, <2>2, SameUptodate DEF stream
  <1>. QED
    BY <1>2, <1>3, <1>4, <1>5 DEF Streaming

LEMMA NextShut ==
  ASSUME All, Shut, [Next]_vars
  PROVE  Shut'
  <1>1. CASE Closed
    BY <1>1 DEF Closed, Shut, NewTarget
  <1>2. CASE conn' = conn /\ (conn # "open" => UNCHANGED <<target, fresh>>)
    BY <1>2 DEF Shut
  <1>3. CASE conn' = "open"
    BY <1>3 DEF Shut
  <1>4. ASSUME NEW l \in Listeners, AddQueryListener(l)
        PROVE  Closed \/ (conn' = conn /\ (conn # "open" => UNCHANGED <<target, fresh>>))
    BY <1>4 DEF AddQueryListener, Listen, stream
  <1>5. ASSUME NEW l \in Listeners, RemoveQueryListener(l) \/ EventRuns(l)
        PROVE  conn' = conn /\ (conn # "open" => UNCHANGED <<target, fresh>>)
    BY <1>5 DEF RemoveQueryListener, StopListening, EventRuns, stream
  <1>6. CASE BackoffElapsed
    BY <1>6 DEF BackoffElapsed, Shut
  <1>7. ASSUME OnWatchStreamChange
        PROVE  conn' = conn /\ conn = "open"
    BY <1>7 DEF OnWatchStreamChange, OnAdded, OnRemoved, OnCurrent, OnDocument, OnRejected,
                OnSnapshot, Heard, All, Counted
  <1>8. ASSUME Backend \/ UNCHANGED vars \/ OnlineStateTimeout
        PROVE  UNCHANGED <<conn, target, fresh>>
    BY <1>8 DEF Backend, BackendWatches, BackendRejects, BackendForgets, BackendReads,
                DocumentChanges, OnlineStateTimeout, vars, stream
  <1>9. CASE Streaming
    BY <1>1, <1>2, <1>3, <1>6, <1>8, <1>9
    DEF Streaming, OnWatchStreamOpen, OnWatchStreamBroken, IdleTimeout, OnConnectivityChange
  <1>. QED
    BY <1>1, <1>2, <1>4, <1>5, <1>7, <1>8, <1>9 DEF Next, Calls

\* The history variable: what the document was at the call.
LEMMA NextFloor ==
  ASSUME All, Data', Recent, [Next]_vars, NEW l \in Listeners
  PROVE  (l \notin asked' => floor'[l] = 0) /\ floor'[l] <= docs'[Doc[l]]
  <1>1. /\ docs \in [Docs -> Nat] /\ floor \in [Listeners -> Nat] /\ Doc[l] \in Docs
        /\ l \notin asked => floor[l] = 0
        /\ floor[l] <= docs[Doc[l]]
    BY ListenersAssumption DEF All, Data, Members, Recent
  <1>2. ASSUME NEW m \in Listeners, AddQueryListener(m) PROVE (l \notin asked' => floor'[l] = 0) /\ floor'[l] <= docs'[Doc[l]]
    <2>1. docs' = docs /\ asked' = asked \cup {m}
          /\ (floor' = floor \/ floor' = [floor EXCEPT ![m] = docs[Doc[m]]])
      BY <1>2 DEF AddQueryListener
    <2>. QED
      BY <1>1, <2>1
  <1>3. ASSUME NEW d \in Docs, DocumentChanges(d) PROVE (l \notin asked' => floor'[l] = 0) /\ floor'[l] <= docs'[Doc[l]]
    <2>1. docs' = [docs EXCEPT ![d] = docs[d] + 1] /\ UNCHANGED <<asked, floor>>
      BY <1>3 DEF DocumentChanges
    <2>2. docs'[Doc[l]] \in {docs[Doc[l]], docs[Doc[l]] + 1} /\ docs[Doc[l]] \in Nat /\ floor[l] \in Nat
      BY <1>1, <2>1
    <2>. QED
      BY <1>1, <2>1, <2>2
  <1>4. (\E m \in Listeners : AddQueryListener(m)) \/ (\E d \in Docs : DocumentChanges(d))
        \/ UNCHANGED <<docs, asked, floor>>
    BY DEF Next, Calls, Streaming, OnWatchStreamChange, Backend,
           RemoveQueryListener, EventRuns, OnWatchStreamOpen, OnWatchStreamBroken, BackoffElapsed,
           IdleTimeout, OnConnectivityChange, OnlineStateTimeout, OnAdded, OnRemoved, OnCurrent,
           OnDocument, OnRejected, OnSnapshot, Heard, BackendWatches, BackendRejects,
           BackendForgets, BackendReads, vars
  <1>. QED
    BY <1>1, <1>2, <1>3, <1>4

LEMMA NextRecent ==
  ASSUME All, All', Recent, [Next]_vars
  PROVE  Recent'
  <1>1. Shut'
    BY NextShut DEF Recent
  <1>2. \A l \in Listeners : (l \notin asked' => floor'[l] = 0) /\ floor'[l] <= docs'[Doc[l]]
    BY NextFloor DEF All
  <1>3. ASSUME NEW l \in Listeners, l \in listening'[Doc[l]], Doc[l] \notin crossed'
        PROVE  Uptodate(Doc[l], floor[l])'
    <2>1. PICK n \in Nat : n = floor'[l]
      BY DEF All, Members
    <2>2. Uptodate(Doc[l], n)'
      <3>1. CASE UNCHANGED vars \/ \E m \in Listeners : EventRuns(m)
        <4>1. UNCHANGED <<stream, store, views, floor>>
          BY <3>1 DEF vars, EventRuns
        <4>2. Uptodate(Doc[l], n)
          BY <1>3, <2>1, <4>1 DEF stream, views, Recent
        <4>. QED
          BY <4>1, <4>2, SameUptodate DEF stream, store, views
      <3>. QED
        BY <1>3, <2>1, <3>1, CalledUptodate, RemovedUptodate, StreamUptodate, HeardUptodate,
           BackendUptodate DEF All, Next, Calls
    <2>. QED
      BY <2>1, <2>2 DEF Uptodate, Has
  <1>. QED
    BY <1>1, <1>2, <1>3 DEF Recent

THEOREM AlwaysRecent == Spec => [](All /\ Recent)
  <1>1. Init => All /\ Recent
    BY InitAll, InitRecent
  <1>2. All /\ Recent /\ [Next]_vars => (All /\ Recent)'
    BY NextAll, NextRecent
  <1>. QED
    BY <1>1, <1>2, PTL DEF Spec

LEMMA LastIsAppended ==
  ASSUME NEW s \in Seq(Told), NEW e \in Told
  PROVE  Append(s, e)[Len(Append(s, e))] = e
  OBVIOUS

LEMMA NobodyTold ==
  ASSUME All, NEW l \in Listeners, inbox'[l] = inbox[l]
  PROVE  NotStale(l)
  <1>1. Len(inbox[l]) \in Nat
    BY DEF All, Delivered
  <1>. QED
    BY <1>1 DEF NotStale

LEMMA CallNotStale ==
  ASSUME All, Recent, NEW m \in Listeners, AddQueryListener(m), NEW l \in Listeners
  PROVE  NotStale(l)
  <1>. DEFINE d == Doc[l]
              e == Event(cache[d], d \notin current')
  <1>1. d \in Docs /\ cache[d] \in Nat
    BY ListenersAssumption DEF All, Data
  <1>2. (d \notin current') \in BOOLEAN
    BY Zenon
  <1>3. e \in Told /\ e.doc = cache[d] /\ (~e.cached => d \in current')
    BY <1>1, <1>2 DEF Event, Told
  <1>4. inbox \in [Listeners -> Seq(Told)]
    BY DEF All, Delivered
  <1>5. CASE inbox'[l] = inbox[l]
    BY <1>5, NobodyTold
  <1>6. CASE inbox'[l] # inbox[l]
    <2>1. l = m /\ inbox'[l] = Append(inbox[l], e)
      BY <1>4, <1>6 DEF AddQueryListener
    <2>2. inbox'[l][Len(inbox'[l])] = e
      BY <1>3, <1>4, <2>1, LastIsAppended
    <2>3. d \in current' => floor'[l] = 0
      <3>1. CASE listening[d] = {}
        BY <2>1, <3>1 DEF AddQueryListener
      <3>2. CASE listening[d] # {}
        BY <2>1, <3>2 DEF AddQueryListener, Recent
      <3>. QED
        BY <3>1, <3>2
    <2>. QED
      BY <1>1, <1>3, <2>2, <2>3 DEF NotStale
  <1>. QED
    BY <1>5, <1>6

LEMMA OfflineNotStale ==
  ASSUME All, GoOffline, NEW l \in Listeners
  PROVE  NotStale(l)
  <1>. DEFINE e == Event(cache[Doc[l]], TRUE)
  <1>1. Doc[l] \in Docs /\ cache[Doc[l]] \in Nat /\ inbox \in [Listeners -> Seq(Told)]
    BY ListenersAssumption DEF All, Data, Delivered
  <1>2. e \in Told /\ e.cached
    BY <1>1 DEF Event, Told
  <1>3. inbox'[l] = inbox[l] \/ inbox'[l] = Append(inbox[l], e)
    BY DEF GoOffline
  <1>. HIDE DEF e
  <1>4. CASE inbox'[l] = Append(inbox[l], e)
    <2>1. inbox'[l][Len(inbox'[l])] = e
      BY <1>1, <1>2, <1>4, LastIsAppended
    <2>. QED
      BY <1>2, <2>1 DEF NotStale
  <1>. QED
    BY <1>3, <1>4, NobodyTold

LEMMA RejectionNotStale ==
  ASSUME All, OnRejected, NEW l \in Listeners
  PROVE  NotStale(l)
  <1>1. inbox'[l] = inbox[l] \/ inbox'[l] = Append(inbox[l], Failure)
    BY DEF OnRejected
  <1>2. inbox \in [Listeners -> Seq(Told)]
    BY DEF All, Delivered
  <1>3. CASE inbox'[l] = Append(inbox[l], Failure)
    <2>1. inbox'[l][Len(inbox'[l])] = Failure
      BY <1>2, <1>3, FailureType, LastIsAppended
    <2>. QED
      BY <2>1, FailureType DEF NotStale
  <1>. QED
    BY <1>1, <1>3, NobodyTold

LEMMA SnapshotNotStale ==
  ASSUME All, Recent, OnSnapshot, NEW l \in Listeners
  PROVE  NotStale(l)
  <1>. DEFINE d       == Doc[l]
              changed == {c \in Docs : IsActiveTarget(c) /\ target[c].changed}
              synced  == {c \in changed : target[c].current}
              after   == (current \ changed) \cup synced
              doc     == [c \in Docs |-> IF fresh[c] > cache[c] THEN fresh[c] ELSE cache[c]]
              e       == Event(doc[d], d \notin after)
  <1>1. d \in Docs /\ cache[d] \in Nat /\ fresh[d] \in Nat /\ inbox \in [Listeners -> Seq(Told)]
    BY ListenersAssumption DEF All, Data, Delivered
  <1>2. floor'[l] = floor[l] /\ floor[l] \in Nat
    BY DEF OnSnapshot, Heard, All, Members
  <1>3. (d \notin after) \in BOOLEAN
    BY Zenon
  <1>4. doc[d] \in Nat
    BY <1>1
  <1>5. e \in Told /\ e.doc = doc[d] /\ (~e.cached => d \in after)
    <2>. HIDE DEF doc, after
    <2>. QED
      BY <1>3, <1>4 DEF Event, Told
  <1>6. inbox'[l] = inbox[l] \/ (inbox'[l] = Append(inbox[l], e) /\ HasEvent(l, current, after, doc))
    BY DEF OnSnapshot
  <1>7. CASE inbox'[l] = Append(inbox[l], e) /\ HasEvent(l, current, after, doc)
    <2>1. inbox'[l][Len(inbox'[l])] = e
      BY <1>1, <1>5, <1>7, LastIsAppended
    <2>2. l \in listening[d] /\ (doc[d] # cache[d] \/ ((d \in after) # (d \in current)))
      BY <1>7 DEF HasEvent
    <2>3. ASSUME d \in after, d \notin crossed
          PROVE  doc[d] >= floor[l]
      <3>1. Uptodate(d, floor[l])
        BY <2>2, <2>3 DEF Recent
      <3>2. Has(d, floor[l]) => doc[d] >= floor[l]
        BY <1>1, <1>2 DEF Has
      <3>3. CASE d \in synced
        BY <3>1, <3>2, <3>3 DEF Uptodate, IsActiveTarget
      <3>4. CASE d \in current \ changed
        <4>1. doc[d] # cache[d]
          BY <2>2, <2>3, <3>4
        <4>2. fresh[d] > cache[d] /\ fresh[d] >= floor[l]
          BY <1>1, <1>2, <3>1, <3>4, <4>1 DEF Uptodate
        <4>. QED
          BY <3>2, <4>2 DEF Has
      <3>. QED
        BY <2>3, <3>3, <3>4
    <2>. HIDE DEF doc, after, changed, synced
    <2>4. ~e.cached => e.doc >= floor'[l] \/ d \in crossed
      BY <1>2, <1>5, <2>3
    <2>. HIDE DEF e
    <2>. QED
      BY <2>1, <2>4 DEF NotStale
  <1>. QED
    BY <1>6, <1>7, NobodyTold

LEMMA RunNotStale ==
  ASSUME All, NEW m \in Listeners, EventRuns(m), NEW l \in Listeners
  PROVE  NotStale(l)
  <1>1. inbox[l] \in Seq(Told) /\ (inbox'[l] = inbox[l] \/ (inbox[l] # <<>> /\ inbox'[l] = Tail(inbox[l])))
    BY DEF EventRuns, All, Delivered
  <1>2. CASE inbox[l] # <<>> /\ inbox'[l] = Tail(inbox[l])
    <2>1. ~(Len(inbox'[l]) > Len(inbox[l]))
      BY <1>1, <1>2
    <2>. QED
      BY <2>1 DEF NotStale
  <1>. QED
    BY <1>1, <1>2, NobodyTold

\* What a listener is told as not from the cache is no older than its call, although
\* answers to earlier listens of its document may still be on their way; unless a
\* rejection has crossed another request of the document.
THEOREM NeverStale == Spec => SyncedIsNotStale
  <1>1. All /\ Recent /\ [Next]_vars => [\A l \in Listeners : NotStale(l)]_vars
    <2>. SUFFICES ASSUME All, Recent, Next, NEW l \in Listeners PROVE NotStale(l)
      OBVIOUS
    <2>1. CASE \E m \in Listeners : AddQueryListener(m)
      BY <2>1, CallNotStale
    <2>2. CASE \E m \in Listeners : EventRuns(m)
      BY <2>2, RunNotStale
    <2>3. CASE GoOffline
      BY <2>3, OfflineNotStale
    <2>4. CASE OnRejected
      BY <2>4, RejectionNotStale
    <2>5. CASE OnSnapshot
      BY <2>5, SnapshotNotStale
    <2>6. CASE inbox' = inbox
      BY <2>6, NobodyTold
    <2>7. \/ \E m \in Listeners : AddQueryListener(m) \/ EventRuns(m)
          \/ GoOffline \/ OnRejected \/ OnSnapshot \/ inbox' = inbox
      BY DEF Next, Calls, RemoveQueryListener, Streaming, OnWatchStreamOpen, OnWatchStreamBroken,
             BackoffElapsed, IdleTimeout, OnConnectivityChange, OnlineStateTimeout, Announce,
             OnWatchStreamChange, OnAdded, OnRemoved, OnCurrent, OnDocument, Backend,
             BackendWatches, BackendRejects, BackendForgets, BackendReads, DocumentChanges
    <2>. QED
      BY <2>1, <2>2, <2>3, <2>4, <2>5, <2>6, <2>7
  <1>. QED
    BY <1>1, AlwaysRecent, PTL DEF Spec, SyncedIsNotStale
=============================================================================
