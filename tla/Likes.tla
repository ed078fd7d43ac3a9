-------------------------------- MODULE Likes -------------------------------
(***************************************************************************)
(* The document Likes/{post} of one post, shared by the home pages of all  *)
(* users (postLiked of MainPage/MainController.swift).  A tap reads the    *)
(* document.  The answer is worked out on the SDK's queue and handled on   *)
(* the main queue, later: the callback chooses the write by what the       *)
(* answer saw, updateData of the user's own key when the document existed, *)
(* setData of a document that holds ONLY that key when it did not.  The    *)
(* write waits in the mutation queue of the user's device until the        *)
(* backend decides it.  Before the callback runs, and again before the     *)
(* write is decided, the document the answer did not see may have come.    *)
(*                                                                         *)
(* Feed models the rows of one device in detail; here every device shows   *)
(* the post in one row.                                                    *)
(***************************************************************************)
EXTENDS Naturals, Sequences

CONSTANTS
    Users,
    MaxTaps,      \* bound: taps on like buttons
    MaxFailures,  \* bound: failed reads and refused writes
    MaxRestarts   \* bound: restarts of some user's application

VARIABLES
    exists,   \* the backend has the document Likes/{post}
    val,      \* val[u]: it holds u |-> 1 (0 and no key are read alike)
    queue,    \* queue[u]: the mutation queue of u's device, oldest write first
    reading,  \* reading[u][h]: taps of u that captured heart h, not answered yet
    main,     \* main[u]: callbacks on u's main queue, answers and completions in their order
    shown,    \* shown[u]: the heart in u's row
    erased,   \* history: a setData has replaced a document somebody else was in
    taps, failures, restarts

counts == <<taps, failures, restarts>>
vars   == <<exists, val, queue, reading, main, shown, erased, counts>>

\* A write: setData or updateData, u |-> value, and whether the process that
\* issued it still waits for the completion.
Write == [kind : {"set", "update"}, value : BOOLEAN, live : BOOLEAN]

\* A callback: the answer to a tap's read, with the value the tap writes, or the
\* completion of an accepted write, with the value it wrote.
Callback == [what : {"missing", "there", "saved"}, value : BOOLEAN]

LocalVal(u) == IF queue[u] = <<>> THEN val[u] ELSE queue[u][Len(queue[u])].value

\* A read on u's device is laid over by the writes that device still queues.
SeenExists(u) == exists \/ \E i \in DOMAIN queue[u] : queue[u][i].kind = "set"

Init ==
    /\ exists \in BOOLEAN
    /\ val \in [Users -> BOOLEAN]
    /\ \A u \in Users : val[u] => exists
    /\ queue = [u \in Users |-> <<>>]
    /\ reading = [u \in Users |-> [h \in BOOLEAN |-> 0]]
    /\ main = [u \in Users |-> <<>>]
    /\ shown = val
    /\ erased = FALSE
    /\ taps = 0 /\ failures = 0 /\ restarts = 0

\* postLiked: the row's post is copied with its heart, and the read begins.
Tap(u) ==
    /\ taps < MaxTaps
    /\ taps' = taps + 1
    /\ reading' = [reading EXCEPT ![u][shown[u]] = @ + 1]
    /\ UNCHANGED <<exists, val, queue, main, shown, erased, failures, restarts>>

\* The read is answered, by the backend and over the writes of this device: its
\* callback goes to the main queue with what the answer saw.
ReadAnswered(u, heart) ==
    /\ reading[u][heart] > 0
    /\ reading' = [reading EXCEPT ![u][heart] = @ - 1]
    /\ main' = [main EXCEPT ![u] =
                   Append(@, [what  |-> IF SeenExists(u) THEN "there" ELSE "missing",
                              value |-> ~heart])]
    /\ UNCHANGED <<exists, val, queue, shown, erased, counts>>

NextCallback(u, whats) ==
    /\ main[u] # <<>> /\ Head(main[u]).what \in whats
    /\ main' = [main EXCEPT ![u] = Tail(@)]

\* Mutant: taking a like back writes the whole document.
ReadRunsSetting(u) ==
    LET read == Head(main[u])
    IN  /\ NextCallback(u, {"there", "missing"})
        /\ queue' = [queue EXCEPT ![u] =
                        Append(@, [kind  |-> IF read.what = "there" /\ read.value
                                             THEN "update" ELSE "set",
                                   value |-> read.value,
                                   live  |-> TRUE])]
        /\ UNCHANGED <<exists, val, reading, shown, erased, counts>>

\* The callback of a read runs: it issues the write that the answer calls for,
\* whatever has become of the document since.
ReadRuns(u) ==
    LET read == Head(main[u])
    IN  /\ NextCallback(u, {"there", "missing"})
        /\ queue' = [queue EXCEPT ![u] =
                        Append(@, [kind  |-> IF read.what = "there" THEN "update" ELSE "set",
                                   value |-> read.value,
                                   live  |-> TRUE])]
        /\ UNCHANGED <<exists, val, reading, shown, erased, counts>>

ReadFails(u, heart) ==
    /\ failures < MaxFailures
    /\ failures' = failures + 1
    /\ reading[u][heart] > 0
    /\ reading' = [reading EXCEPT ![u][heart] = @ - 1]
    /\ UNCHANGED <<exists, val, queue, main, shown, erased, taps, restarts>>

Accepted(u, write) ==
    main' = IF write.live
            THEN [main EXCEPT ![u] = Append(@, [what |-> "saved", value |-> write.value])]
            ELSE main

Dequeue(u) ==
    /\ queue[u] # <<>>
    /\ queue' = [queue EXCEPT ![u] = Tail(@)]

\* The backend commits u's oldest write, a setData: the whole document is replaced.
CommitSet(u) ==
    /\ Dequeue(u)
    /\ Head(queue[u]).kind = "set"
    /\ exists' = TRUE
    /\ val' = [v \in Users |-> v = u /\ Head(queue[u]).value]
    /\ erased' = (erased \/ \E v \in Users \ {u} : val[v])
    /\ Accepted(u, Head(queue[u]))
    /\ UNCHANGED <<reading, shown, counts>>

\* The backend commits u's oldest write, an updateData of the key u.
CommitUpdate(u) ==
    /\ Dequeue(u)
    /\ Head(queue[u]).kind = "update"
    /\ exists
    /\ val' = [val EXCEPT ![u] = Head(queue[u]).value]
    /\ Accepted(u, Head(queue[u]))
    /\ UNCHANGED <<exists, reading, shown, erased, counts>>

\* updateData of a document that is not there (the setData before it was refused).
UpdateNotFound(u) ==
    /\ Dequeue(u)
    /\ Head(queue[u]).kind = "update"
    /\ ~exists
    /\ UNCHANGED <<exists, val, reading, main, shown, erased, counts>>

Refused(u) ==
    /\ failures < MaxFailures
    /\ failures' = failures + 1
    /\ Dequeue(u)
    /\ UNCHANGED <<exists, val, reading, main, shown, erased, taps, restarts>>

\* The completion runs on u's main queue: the copy of the post, heart turned,
\* replaces the row.
Ack(u) ==
    /\ NextCallback(u, {"saved"})
    /\ shown' = [shown EXCEPT ![u] = Head(main[u]).value]
    /\ UNCHANGED <<exists, val, queue, reading, erased, counts>>

\* Mutant: the queue of writes is forgotten with the process that made them.
RestartForgetting(u) ==
    /\ restarts < MaxRestarts
    /\ restarts' = restarts + 1
    /\ reading' = [reading EXCEPT ![u] = [h \in BOOLEAN |-> 0]]
    /\ main' = [main EXCEPT ![u] = <<>>]
    /\ queue' = [queue EXCEPT ![u] = <<>>]
    /\ shown' = [shown EXCEPT ![u] = LocalVal(u)]
    /\ UNCHANGED <<exists, val, erased, taps, failures>>

\* A write restored from disk: the SDK has no callback for it.
WithoutCallback(write) == [kind |-> write.kind, value |-> write.value, live |-> FALSE]

\* u's application ends and is started again.  Reads and callbacks are gone;
\* the queue is on disk and goes on without callbacks; the row shows what the
\* page reads on the new start.
Restart(u) ==
    /\ restarts < MaxRestarts
    /\ restarts' = restarts + 1
    /\ reading' = [reading EXCEPT ![u] = [h \in BOOLEAN |-> 0]]
    /\ main' = [main EXCEPT ![u] = <<>>]
    /\ queue' = [queue EXCEPT ![u] = [i \in DOMAIN @ |-> WithoutCallback(@[i])]]
    /\ shown' = [shown EXCEPT ![u] = LocalVal(u)]
    /\ UNCHANGED <<exists, val, erased, taps, failures>>

Next ==
    \E u \in Users :
        \/ Tap(u)
        \/ \E heart \in BOOLEAN : ReadAnswered(u, heart) \/ ReadFails(u, heart)
        \/ ReadRuns(u)
        \/ CommitSet(u)
        \/ CommitUpdate(u)
        \/ UpdateNotFound(u)
        \/ Refused(u)
        \/ Ack(u)
        \/ Restart(u)

Spec == Init /\ [][Next]_vars

\* Somebody has liked the post before: the document is there.
WarmInit == Init /\ exists
WarmSpec == WarmInit /\ [][Next]_vars

----------------------------------------------------------------------------
TypeOK ==
    /\ exists \in BOOLEAN
    /\ val \in [Users -> BOOLEAN]
    /\ queue \in [Users -> Seq(Write)]
    /\ reading \in [Users -> [BOOLEAN -> Nat]]
    /\ main \in [Users -> Seq(Callback)]
    /\ shown \in [Users -> BOOLEAN] /\ erased \in BOOLEAN
    /\ taps \in Nat /\ failures \in Nat /\ restarts \in Nat

\* The document exists, no setData is queued, and no callback that will issue one
\* waits on a main queue: an answer that missed the document may be handled long
\* after it has come.
Warm ==
    /\ exists
    /\ \A u \in Users : /\ \A i \in DOMAIN queue[u] : queue[u][i].kind = "update"
                        /\ \A i \in DOMAIN main[u] : main[u][i].what # "missing"

\* Once the Likes document of a post is there, and the answers that missed it have
\* been handled and their setData calls decided, postLiked never replaces the whole
\* document again, whatever was read in the meantime.
WarmStays == [][Warm => Warm']_vars

\* From then on the document is the book of independent registers it should be:
\* a user's writes are saved or refused in their order, and touch nobody else.
Values(writes) == [i \in DOMAIN writes |-> writes[i].value]
Book == INSTANCE LikeBook WITH
            likes   <- val,
            pending <- [u \in Users |-> Values(queue[u])]
IsABook == Book!Spec

\* Started from a missing document, it becomes one when it is warm, and stays one.
BookOnceWarm == [][Warm => Warm' /\ [Book!Next]_(Book!book)]_vars

\* When a device has nothing under way and nothing has failed, the heart it shows
\* is the value the document holds, through double taps, reads that answer in any
\* order, restarts between a write and its completion, and first likes of several
\* devices: unless a setData has erased another user's like.
Quiet(u) == reading[u][TRUE] + reading[u][FALSE] = 0 /\ queue[u] = <<>> /\ main[u] = <<>>
HeartsAgree == failures = 0 => \A u \in Users : Quiet(u) => shown[u] = val[u]
HeartsAgreeUnlessErased == ~erased => HeartsAgree

(* What README.md promises and the code does not do. *)

\* "You can also like these photos": what an idle heart shows has been saved.
HeartsAreSaved == HeartsAgree
=============================================================================
