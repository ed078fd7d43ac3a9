------------------------------ MODULE MCWrites ------------------------------
(* Two users who take turns on one device; the first starts, by symmetry. *)
EXTENDS Writes

CONSTANTS ann, bob

AnnFirst     == Init /\ user = ann
AnnFirstSpec == AnnFirst /\ [][Next]_vars /\ Fairness
=============================================================================
