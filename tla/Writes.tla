------------------------------- MODULE Writes -------------------------------
(***************************************************************************)
(* How the Firestore SDK gets the writes of a device to the backend:       *)
(* SyncEngine, LocalStore and the mutation queue on disk, RemoteStore's    *)
(* write pipeline and the write stream.  All of it runs on the worker      *)
(* queue, one action at a time; the backend and the network are external.  *)
(*                                                                         *)
(* A user's batches wait in a queue on disk.  At most Limit of them are in *)
(* the pipeline; once the handshake of the stream is answered, all of the  *)
(* pipeline is sent, and every answer is taken to be about its front.  A   *)
(* stream that breaks is started again after a backoff and the pipeline is *)
(* sent again: the handshake carries no stream token, so what the backend  *)
(* applied before the break it applies twice.                              *)
(*                                                                         *)
(* Every write is a setData of one document, which the watch stream brings *)
(* back with its version, the position of the write in the backend's log.  *)
(* A listener of the document shows what the local view makes of it.       *)
(***************************************************************************)
EXTENDS Naturals, Sequences, FiniteSetsExt

CONSTANTS
    Users,        \* who may be signed in, nobody included
    MaxWrites,    \* bound: writes of this device, numbered as they are issued
    Limit,        \* kMaxPendingWrites
    MaxRefusals,  \* bound: writes the backend refuses
    MaxTroubles   \* bound: broken streams, connectivity changes, changes of the
                  \* signed-in user, restarts, and writes of other devices

ASSUME WritesAssumption == MaxWrites \in Nat /\ Limit \in Nat \ {0}

VARIABLES
    user,      \* current_user_
    queue,     \* queue[u]: the batches of u on disk, oldest first
    nextId,    \* next_batch_id_ of the current user's queue
    callbacks, \* mutation_callbacks_
    pipeline,  \* write_pipeline_
    conn,      \* state of the write stream; Open and Healthy are one
    ready,     \* handshake_complete_
    idle,      \* idleness_timer_ is set
    up, down,  \* requests and answers of the present stream
    log,       \* what the backend has applied to the document; 0: another device
    cache,     \* the document in the remote document cache
    shown,     \* the document in the view of the listener
    (* history *)
    outcome,   \* outcome[w]: what the SDK decided w to be
    told,      \* told[w]: what the caller of w was told
    lost,      \* writes whose callback ended with its process
    denied,    \* writes the backend has refused
    overtaken, \* a failed write operation has swallowed an answer
    issued, troubles

disk    == <<queue, nextId>>
stream  == <<conn, ready, idle, up, down>>
view    == <<cache, shown>>
history == <<outcome, told, lost, denied, overtaken>>
counts  == <<issued, troubles>>
vars    == <<user, disk, callbacks, pipeline, stream, log, view, history, counts>>

AllWrites == 1..MaxWrites
Batches   == [id : Nat, write : AllWrites]
States    == {"initial", "starting", "open", "error", "backoff"}
Started   == {"starting", "open", "backoff"}

Init ==
    /\ user \in Users
    /\ queue = [u \in Users |-> <<>>] /\ nextId = 1
    /\ callbacks = {}
    /\ pipeline = <<>>
    /\ conn = "initial" /\ ready = FALSE /\ idle = FALSE
    /\ up = <<>> /\ down = <<>>
    /\ log = <<>>
    /\ cache = [value |-> 0, version |-> 0, committed |-> FALSE]
    /\ shown = [value |-> 0, local |-> FALSE]
    /\ outcome = [w \in AllWrites |-> "none"] /\ told = outcome
    /\ lost = {} /\ denied = {} /\ overtaken = FALSE
    /\ issued = 0 /\ troubles = 0

----------------------------------------------------------------------------
(* The local store and the view. *)

\* Mutant: ids are counted per queue, so that the id of a removed batch comes back.
NextIdByLength(queues) == Max({Len(queues[u]) : u \in Users}) + 1

\* LoadNextBatchIdFromDb: one more than the highest id of any user's queue.
LoadNextBatchId(queues) ==
    Max({0} \cup UNION {{queues[u][i].id : i \in DOMAIN queues[u]} : u \in Users}) + 1

\* The document as the local store has it: the current user's writes over the cache.
LocalDoc(q, c) ==
    IF q = <<>>
    THEN [value |-> c.value, local |-> FALSE, committed |-> c.committed]
    ELSE [value |-> q[Len(q)].write, local |-> TRUE, committed |-> FALSE]

\* Mutant: a view that shows a local write waits for the watch stream whatever
\* became of the write.
EmitWaitsAlways(q, c) ==
    LET doc == LocalDoc(q, c)
    IN  shown' = IF shown.local /\ ~doc.local THEN shown
                 ELSE [value |-> doc.value, local |-> doc.local]

\* ComputeDocumentChanges: the listener's view takes the document up unless it is
\* no change, or a changed value acknowledged just now that the watch stream will
\* bring again.
EmitNewSnapshots(q, c) ==
    LET doc     == LocalDoc(q, c)
        pending == doc.local \/ (shown.local /\ doc.committed)
        waits   == shown.local /\ doc.committed /\ ~doc.local
        applies == IF doc.value # shown.value THEN ~waits ELSE pending # shown.local
    IN  shown' = IF applies THEN [value |-> doc.value, local |-> doc.local] ELSE shown

----------------------------------------------------------------------------
(* The pipeline and the stream. *)

Request(batch) == [kind |-> "write", write |-> batch.write]
Handshake      == [kind |-> "handshake", write |-> 0]
Requests(p)    == [i \in DOMAIN p |-> Request(p[i])]

\* Mutant: GetNextMutationBatch starts from the front of the queue again.
RefilledFromFront(p, q) ==
    p \o SubSeq(q, 1, Min({Len(q), Limit - Len(p)}))

\* FillWritePipeline takes the batches behind the last one taken, up to the limit.
Filled(p, q) ==
    LET last  == IF p = <<>> THEN 0 ELSE p[Len(p)].id
        first == Min({i \in DOMAIN q : q[i].id > last} \cup {Len(q) + 1})
    IN  p \o SubSeq(q, first, Min({Len(q), first + Limit - Len(p) - 1}))

\* Mutant: an idle stream stays marked when a write is sent on it.
FillKeepsIdle(p, q, state, handshaken, sent, timer) ==
    LET new   == Filled(p, q)
        added == SubSeq(new, Len(p) + 1, Len(new))
    IN  /\ pipeline' = new
        /\ up' = IF state = "open" /\ handshaken THEN sent \o Requests(added) ELSE sent
        /\ idle' = (timer \/ (new = <<>> /\ state = "open"))
        /\ conn' = IF new = <<>> \/ state \in Started THEN state
                   ELSE IF state = "error" THEN "backoff" ELSE "starting"

\* FillWritePipeline, for the pipeline p, the queue q and a stream in the given
\* state: what it adds is sent if the handshake is done, which clears the idle
\* timer; with nothing to send the stream is marked idle; a stream that is needed
\* is started, from Error through a backoff.
FillWritePipeline(p, q, state, handshaken, sent, timer) ==
    LET new   == Filled(p, q)
        added == SubSeq(new, Len(p) + 1, Len(new))
        sends == state = "open" /\ handshaken /\ added # <<>>
    IN  /\ pipeline' = new
        /\ up' = IF sends THEN sent \o Requests(added) ELSE sent
        /\ idle' = IF new = <<>> THEN timer \/ state = "open" ELSE timer /\ ~sends
        /\ conn' = IF new = <<>> \/ state \in Started THEN state
                   ELSE IF state = "error" THEN "backoff" ELSE "starting"

\* RestartNetwork: both streams stop, the pipeline is filled anew, without backoff.
RestartNetwork(q) ==
    /\ FillWritePipeline(<<>>, q, "initial", FALSE, <<>>, FALSE)
    /\ ready' = FALSE /\ down' = <<>>

----------------------------------------------------------------------------
(* The user of the SDK. *)

Trouble ==
    /\ troubles < MaxTroubles
    /\ troubles' = troubles + 1

\* WriteMutations
Write(w) ==
    /\ w = issued + 1 /\ w <= MaxWrites
    /\ issued' = w
    /\ queue' = [queue EXCEPT ![user] = Append(@, [id |-> nextId, write |-> w])]
    /\ nextId' = nextId + 1
    /\ callbacks' = callbacks \cup {[user |-> user, id |-> nextId, write |-> w]}
    /\ EmitNewSnapshots(queue'[user], cache)
    /\ FillWritePipeline(pipeline, queue'[user], conn, ready, up, idle)
    /\ UNCHANGED <<user, ready, down, log, cache, history, troubles>>

\* HandleCredentialChange, for another user: the mutation queues are swapped.
SwitchUser(u) ==
    /\ u # user
    /\ Trouble
    /\ user' = u
    /\ nextId' = LoadNextBatchId(queue)
    /\ EmitNewSnapshots(queue[u], cache)
    /\ RestartNetwork(queue[u])
    /\ UNCHANGED <<queue, callbacks, log, cache, history, issued>>

\* The application ends and starts again; the listener is attached anew.
Restart ==
    /\ Trouble
    /\ nextId' = LoadNextBatchId(queue)
    /\ callbacks' = {}
    /\ lost' = lost \cup {c.write : c \in callbacks}
    /\ LET doc == LocalDoc(queue[user], cache)
       IN  shown' = [value |-> doc.value, local |-> doc.local]
    /\ RestartNetwork(queue[user])
    /\ UNCHANGED <<user, queue, log, cache, outcome, told, denied, overtaken, issued>>

----------------------------------------------------------------------------
(* The stream. *)

\* Credentials are there, the call is started and the handshake is sent.
OnStreamStart ==
    /\ conn = "starting"
    /\ conn' = "open"
    /\ up' = <<Handshake>>
    /\ idle' = FALSE
    /\ UNCHANGED <<user, disk, callbacks, pipeline, ready, down, log, view, history, counts>>

\* The handshake's answer: all of the pipeline is sent.
OnWriteStreamHandshakeComplete ==
    /\ down # <<>> /\ Head(down).kind = "handshake"
    /\ down' = Tail(down)
    /\ ready' = TRUE
    /\ up' = up \o Requests(pipeline)
    /\ idle' = (idle /\ pipeline = <<>>)
    /\ UNCHANGED <<user, disk, callbacks, pipeline, conn, log, view, history, counts>>

\* Mutant: the caller is told the state of the stream.
NotifyStreamState(id, result) ==
    LET mine == {c \in callbacks : c.user = user /\ c.id = id}
    IN  /\ told' = [w \in AllWrites |-> IF \E c \in mine : c.write = w THEN conn ELSE told[w]]
        /\ callbacks' = callbacks \ mine

\* NotifyUser: the caller of the current user's batch id, if this process has it.
NotifyUser(id, result) ==
    LET mine == {c \in callbacks : c.user = user /\ c.id = id}
    IN  /\ told' = [w \in AllWrites |-> IF \E c \in mine : c.write = w THEN result ELSE told[w]]
        /\ callbacks' = callbacks \ mine

\* RemoveMutationBatch
Without(q, id) ==
    LET i == Min({j \in DOMAIN q : q[j].id = id} \cup {Len(q) + 1})
    IN  SubSeq(q, 1, i - 1) \o SubSeq(q, i + 1, Len(q))

\* Mutant: an acknowledged document is cached whatever version the cache has.
AckOverNewer(answer) ==
    [value |-> Head(pipeline).write, version |-> answer.version, committed |-> TRUE]

\* ApplyBatchResult: the acknowledged document, unless the cache has a newer one.
Acknowledged(answer) ==
    IF cache.version < answer.version
    THEN [value |-> Head(pipeline).write, version |-> answer.version, committed |-> TRUE]
    ELSE cache

\* Mutant: the pipeline keeps the batch that was acknowledged.
ResultKeepsFront ==
    LET batch == Head(pipeline)
    IN  /\ down # <<>> /\ Head(down).kind = "saved"
        /\ down' = Tail(down)
        /\ NotifyUser(batch.id, "saved")
        /\ outcome' = [outcome EXCEPT ![batch.write] = "saved"]
        /\ queue' = [queue EXCEPT ![user] = Without(@, batch.id)]
        /\ cache' = Acknowledged(Head(down))
        /\ EmitNewSnapshots(queue'[user], cache')
        /\ FillWritePipeline(pipeline, queue'[user], conn, ready, up, idle)
        /\ UNCHANGED <<user, nextId, ready, log, lost, denied, overtaken, counts>>

\* The answer to a write is taken to be about the front of the pipeline.
OnWriteStreamMutationResult ==
    LET batch == Head(pipeline)
    IN  /\ down # <<>> /\ Head(down).kind = "saved"
        /\ down' = Tail(down)
        /\ NotifyUser(batch.id, "saved")
        /\ outcome' = [outcome EXCEPT ![batch.write] = "saved"]
        /\ queue' = [queue EXCEPT ![user] = Without(@, batch.id)]
        /\ cache' = Acknowledged(Head(down))
        /\ EmitNewSnapshots(queue'[user], cache')
        /\ FillWritePipeline(Tail(pipeline), queue'[user], conn, ready, up, idle)
        /\ UNCHANGED <<user, nextId, ready, log, lost, denied, overtaken, counts>>

\* Mutant: a refused batch leaves the pipeline but not the queue.
RefusedStaysQueued ==
    LET batch == Head(pipeline)
    IN  /\ NotifyUser(batch.id, "refused")
        /\ outcome' = [outcome EXCEPT ![batch.write] = "refused"]
        /\ EmitNewSnapshots(queue[user], cache)
        /\ FillWritePipeline(Tail(pipeline), queue[user], "initial", ready, <<>>, FALSE)
        /\ UNCHANGED queue

\* HandleWriteError for a permanent error: the front of the pipeline is rejected,
\* and the stream is started again at once for what is left.
HandleWriteError ==
    LET batch == Head(pipeline)
    IN  /\ NotifyUser(batch.id, "refused")
        /\ outcome' = [outcome EXCEPT ![batch.write] = "refused"]
        /\ queue' = [queue EXCEPT ![user] = Without(@, batch.id)]
        /\ EmitNewSnapshots(queue'[user], cache)
        /\ FillWritePipeline(Tail(pipeline), queue'[user], "initial", ready, <<>>, FALSE)

Closed == down' = <<>> /\ ready' = FALSE

\* The stream ends with a permanent error once its answers are read.
OnWriteRefused ==
    /\ down # <<>> /\ Head(down).kind = "refused"
    /\ HandleWriteError
    /\ Closed
    /\ UNCHANGED <<user, nextId, log, cache, lost, denied, overtaken, counts>>

\* OnOperationFailed: a write operation fails before the answers are read.  The
\* read that holds the next answer is cancelled, the call is finished and its
\* error taken to be about the front of the pipeline.
OnWriteOperationFailed ==
    /\ up # <<>> /\ Len(down) > 1 /\ down[Len(down)].kind = "refused" /\ ready
    /\ HandleWriteError
    /\ Closed
    /\ overtaken' = TRUE
    /\ UNCHANGED <<user, nextId, log, cache, lost, denied, counts>>

\* Mutant: a broken stream is left alone until the next write.
BreakGivesUp ==
    /\ conn \in {"starting", "open"}
    /\ Trouble
    /\ conn' = "error" /\ up' = <<>> /\ idle' = FALSE
    /\ Closed
    /\ UNCHANGED <<user, disk, callbacks, pipeline, log, view, history, issued>>

\* No token, or the stream breaks with a transient error: it is started again, with
\* backoff, if there is something to send.
OnWriteStreamBroken ==
    /\ conn \in {"starting", "open"}
    /\ Trouble
    /\ conn' = IF pipeline = <<>> THEN "error" ELSE "backoff"
    /\ up' = <<>> /\ idle' = FALSE
    /\ Closed
    /\ UNCHANGED <<user, disk, callbacks, pipeline, log, view, history, issued>>

\* The connectivity callback of RemoteStore::Start.
OnConnectivityChange ==
    /\ Trouble
    /\ RestartNetwork(queue[user])
    /\ UNCHANGED <<user, disk, callbacks, log, view, history, issued>>

BackoffElapsed ==
    /\ conn = "backoff"
    /\ conn' = "starting"
    /\ UNCHANGED <<user, disk, callbacks, pipeline, ready, idle, up, down, log, view, history,
                   counts>>

\* The idle timer stops the stream.
IdleTimeout ==
    /\ idle
    /\ conn' = "initial" /\ up' = <<>> /\ idle' = FALSE
    /\ Closed
    /\ UNCHANGED <<user, disk, callbacks, pipeline, log, view, history, counts>>

----------------------------------------------------------------------------
(* The backend and the watch stream. *)

BackendReads(kind) ==
    /\ up # <<>> /\ Head(up).kind = kind
    /\ \A i \in DOMAIN down : down[i].kind # "refused"
    /\ up' = Tail(up)
    /\ UNCHANGED <<user, disk, callbacks, pipeline, conn, ready, idle, view, outcome, told, lost,
                   overtaken, issued, troubles>>

BackendGreets ==
    /\ BackendReads("handshake")
    /\ down' = Append(down, [kind |-> "handshake", write |-> 0, version |-> 0])
    /\ UNCHANGED <<log, denied>>

BackendApplies ==
    /\ BackendReads("write")
    /\ log' = Append(log, Head(up).write)
    /\ down' = Append(down, [kind |-> "saved", write |-> Head(up).write, version |-> Len(log')])
    /\ UNCHANGED <<denied>>

\* A permanent error: it ends the stream, and nothing behind it is applied.
BackendRefuses ==
    /\ BackendReads("write")
    /\ Cardinality(denied) < MaxRefusals
    /\ denied' = denied \cup {Head(up).write}
    /\ down' = Append(down, [kind |-> "refused", write |-> Head(up).write, version |-> 0])
    /\ UNCHANGED <<log>>

AnotherDeviceWrites ==
    /\ Trouble
    /\ log' = Append(log, 0)
    /\ UNCHANGED <<user, disk, callbacks, pipeline, stream, view, history, issued>>

\* The watch stream brings the document as of some version, late perhaps, and
\* PopulateDocumentChanges takes it if it is newer than the cached one, or the same
\* and that one only acknowledged.
ApplyRemoteEvent(version) ==
    /\ \/ version > cache.version
       \/ version = cache.version /\ cache.committed
    /\ cache' = [value |-> log[version], version |-> version, committed |-> FALSE]
    /\ EmitNewSnapshots(queue[user], cache')
    /\ UNCHANGED <<user, disk, callbacks, pipeline, stream, log, history, counts>>

----------------------------------------------------------------------------
Streaming ==
    \/ OnStreamStart \/ OnWriteStreamHandshakeComplete \/ OnWriteStreamMutationResult
    \/ OnWriteRefused \/ OnWriteOperationFailed \/ OnWriteStreamBroken
    \/ OnConnectivityChange \/ BackoffElapsed \/ IdleTimeout

Backend ==
    \/ BackendGreets \/ BackendApplies \/ BackendRefuses \/ AnotherDeviceWrites
    \/ \E version \in DOMAIN log : ApplyRemoteEvent(version)

Next ==
    \/ \E w \in AllWrites : Write(w)
    \/ \E u \in Users : SwitchUser(u)
    \/ Restart
    \/ Streaming
    \/ Backend

Spec == Init /\ [][Next]_vars

\* Credentials come, backoffs elapse, answers are read, the backend answers what it
\* is sent and the watch stream catches up.  Nobody has to write, to break anything
\* or to refuse.
Fairness ==
    /\ WF_vars(OnStreamStart) /\ WF_vars(BackoffElapsed)
    /\ WF_vars(OnWriteStreamHandshakeComplete)
    /\ WF_vars(OnWriteStreamMutationResult) /\ WF_vars(OnWriteRefused)
    /\ WF_vars(BackendGreets) /\ WF_vars(BackendApplies)
    /\ WF_vars(log # <<>> /\ ApplyRemoteEvent(Len(log)))

FairSpec == Spec /\ Fairness

----------------------------------------------------------------------------
TypeOK ==
    /\ user \in Users
    /\ queue \in [Users -> Seq(Batches)] /\ nextId \in Nat
    /\ callbacks \subseteq [user : Users, id : Nat, write : AllWrites]
    /\ pipeline \in Seq(Batches)
    /\ conn \in States /\ ready \in BOOLEAN /\ idle \in BOOLEAN
    /\ up \in Seq([kind : {"handshake", "write"}, write : 0..MaxWrites])
    /\ down \in Seq([kind : {"handshake", "saved", "refused"}, write : 0..MaxWrites,
                     version : Nat])
    /\ log \in Seq(0..MaxWrites)
    /\ cache \in [value : 0..MaxWrites, version : Nat, committed : BOOLEAN]
    /\ shown \in [value : 0..MaxWrites, local : BOOLEAN]
    /\ outcome \in [AllWrites -> {"none", "saved", "refused"}]
    /\ told \in [AllWrites -> {"none", "saved", "refused"}]
    /\ lost \subseteq AllWrites /\ denied \subseteq AllWrites /\ overtaken \in BOOLEAN
    /\ issued \in 0..MaxWrites

\* remote_store.cc, "should be correlated to the first write in our write
\* pipeline": through breaks, restarts, refusals and changes of user, what is under
\* way on a stream whose handshake is done is the pipeline, in its order, and
\* before that nothing but the handshake is.  So no result finds the pipeline
\* empty, and each is about the front.
Underway == [i \in DOMAIN (down \o up) |-> (down \o up)[i].write]
AnswersMatch ==
    /\ ready => /\ conn = "open"
                /\ Underway = [i \in DOMAIN pipeline |-> pipeline[i].write]
    /\ ~ready => \A i \in DOMAIN Underway : Underway[i] = 0

\* The pipeline is the front of the current user's queue, and as much of it as the
\* limit allows: no batch is skipped, taken twice or left behind.
PipelineIsFront ==
    LET q == queue[user]
    IN  pipeline = SubSeq(q, 1, Min({Limit, Len(q)}))

\* "Write stream was stopped gracefully while still needed": the idle timer never
\* runs while a write waits, not even one that has still to be sent; and a write that
\* waits keeps the stream going, so that nobody has to write again to get it sent.
StreamWhileNeeded ==
    /\ idle => conn = "open" /\ ready /\ pipeline = <<>>
    /\ pipeline # <<>> => conn \in Started

\* A caller is told the outcome of its own write, as soon as there is one, unless
\* its process is gone: batch ids come back after a removal, users take turns, and
\* still no completion goes to somebody else's write.  And what is called refused
\* was refused; an answer overtaken by a failed write operation breaks that.
ToldItsOutcome ==
    \A w \in AllWrites : /\ w \notin lost => told[w] = outcome[w]
                         /\ outcome[w] = "refused" => w \in denied \/ overtaken

\* The cached document is the backend's as of its version, and the listener sees
\* the user's last write while one is queued, and otherwise the cached document,
\* which acknowledgements and late watch events never take back to an older one.
\* One exception, by design of ShouldWaitForSyncedDocument: a view that showed a
\* local write waits for the watch stream to confirm an acknowledged one.
ReadYourWrites ==
    /\ cache.version > 0 => cache.value = log[cache.version]
    /\ LET q == queue[user]
       IN  \/ shown.value = LocalDoc(q, cache).value
           \/ q = <<>> /\ shown.local /\ cache.committed
NeverBack == [][cache'.version >= cache.version]_cache

\* The SDK keeps its promise: the queues decide in order what the backend has
\* applied in order.
Applied == {log[i] : i \in DOMAIN log} \ {0}
Promise == INSTANCE WriteQueue WITH
               Writes  <- AllWrites,
               queue   <- [u \in Users |-> [i \in DOMAIN queue[u] |-> queue[u][i].write]],
               applied <- Applied
KeepsItsPromise == Promise!Spec

\* However streams break, every write of the user who stays signed in is decided,
\* and the listener comes to show what the backend has, acknowledged and all.
EventuallySettled ==
    []<>(/\ queue[user] = <<>>
         /\ shown = [value |-> IF log = <<>> THEN 0 ELSE log[Len(log)], local |-> FALSE])
=============================================================================
