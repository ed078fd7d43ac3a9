---------------------------- MODULE MCListeners -----------------------------
(* Two reads and a listener of one document, for TLC. *)
EXTENDS Listeners

CONSTANTS follows, read, again, listener

DocOf == [l \in Listeners |-> follows]

\* A new installation, or one that has seen the document before.
FirstOrLater ==
    /\ Init
    /\ tokens = {d \in Docs : cache[d] > 0}
    /\ \A d \in Docs : docs[d] <= 1

MCSpec == FirstOrLater /\ [][Next]_vars /\ Fairness
=============================================================================
