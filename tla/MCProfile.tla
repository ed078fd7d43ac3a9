----------------------------- MODULE MCProfile ------------------------------
(* Me's own page and Ann's, before Me has followed anybody, for TLC. *)
EXTENDS Profile, TLC

CONSTANTS me, ann

PostsOf == [u \in Users |-> IF u = me THEN 2 ELSE 1]

NobodyFollowed == ProfileInit /\ ~doc.exists

MCSpec == NobodyFollowed /\ [][ProfileNext]_profileVars /\ Fairness
=============================================================================
