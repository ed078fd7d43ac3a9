------------------------------- MODULE MCFeed -------------------------------
(***************************************************************************)
(* Instances of Feed for TLC: Me, one other person and two posts of        *)
(* different dates, shared by different people or by the same one.         *)
(***************************************************************************)
EXTENDS Feed, TLC

CONSTANTS me, ann, p1, p2

OneEach  == p1 :> ann @@ p2 :> me
BothAnns == p1 :> ann @@ p2 :> ann
P2Newer  == p1 :> 1 @@ p2 :> 2

\* Without taps (LikeOps = {}) no heart is read: start with none.  Me follows one
\* user at most, until an edit adds another.
QuietInit == Init /\ stored = [p \in Posts |-> FALSE] /\ follows # Users

\* Next with one failure or one restart, not both.
QuietNext ==
    \/ Loading
    \/ relaunches = 0 /\ Failing
    \/ failures = 0 /\ Relaunch
    \/ \E u \in Users : EditFollows(u)
    \/ \E p \in Posts : Publish(p)
    \/ \E pulled \in BOOLEAN : Refresh(pulled)
QuietSpec == QuietInit /\ [][QuietNext]_vars /\ Fairness

\* Likes on Ann's posts only: she is followed, and self-follow is left out.
LikeInit == Init /\ follows = {ann}
LikeSpec == LikeInit /\ [][Next]_vars

Taps == Permutations(LikeOps)
=============================================================================
