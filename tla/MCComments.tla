----------------------------- MODULE MCComments -----------------------------
(* Two comments of Me, one of Ann and one of Bob, for TLC. *)
EXTENDS Comments, TLC

CONSTANTS me, ann, bob, mine1, mine2, anns, bobs

WhoseComment == mine1 :> me @@ mine2 :> me @@ anns :> ann @@ bobs :> bob
=============================================================================
