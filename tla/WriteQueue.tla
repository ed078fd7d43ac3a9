----------------------------- MODULE WriteQueue -----------------------------
(***************************************************************************)
(* What the Firestore SDK promises of the writes of one device, whatever   *)
(* streams, pipelines and batch ids it keeps: every user has a queue that  *)
(* outlives the process; the backend applies the writes of a queue for the *)
(* first time in their order; the SDK decides them in their order, each    *)
(* one once, and calls saved only what the backend has applied.            *)
(***************************************************************************)
EXTENDS Naturals, Sequences

CONSTANTS Users, Writes

VARIABLES
    queue,    \* queue[u]: u's undecided writes, oldest first
    applied,  \* writes the backend has applied at least once
    outcome   \* outcome[w]: "none" until w is decided

vars == <<queue, applied, outcome>>

Init ==
    /\ queue = [u \in Users |-> <<>>]
    /\ applied = {}
    /\ outcome = [w \in Writes |-> "none"]

Queued == UNION {{queue[u][i] : i \in DOMAIN queue[u]} : u \in Users}

Issue(u, w) ==
    /\ w \notin Queued \cup applied /\ outcome[w] = "none"
    /\ queue' = [queue EXCEPT ![u] = Append(@, w)]
    /\ UNCHANGED <<applied, outcome>>

Apply(u, i) ==
    /\ \A j \in 1..(i - 1) : queue[u][j] \in applied
    /\ applied' = applied \cup {queue[u][i]}
    /\ UNCHANGED <<queue, outcome>>

Decide(u, result) ==
    /\ queue[u] # <<>>
    /\ result = "saved" => Head(queue[u]) \in applied
    /\ queue' = [queue EXCEPT ![u] = Tail(@)]
    /\ outcome' = [outcome EXCEPT ![Head(queue[u])] = result]
    /\ UNCHANGED applied

Next ==
    \E u \in Users :
        \/ \E w \in Writes : Issue(u, w)
        \/ \E i \in DOMAIN queue[u] : Apply(u, i)
        \/ \E result \in {"saved", "refused"} : Decide(u, result)

Spec == Init /\ [][Next]_vars
=============================================================================
