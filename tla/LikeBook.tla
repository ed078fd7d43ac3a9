------------------------------ MODULE LikeBook ------------------------------
(***************************************************************************)
(* What the likes of one post promise to its readers and writers: every    *)
(* user owns one register, true when the user likes the post.  A user's    *)
(* writes take effect in the order they were made, or are refused, and no  *)
(* step of one user changes the register of another.                       *)
(***************************************************************************)
EXTENDS Sequences

CONSTANT Users

VARIABLES
    likes,   \* likes[u]: u likes the post
    pending  \* pending[u]: the values u has written that are not decided yet

book == <<likes, pending>>

Init ==
    /\ likes \in [Users -> BOOLEAN]
    /\ pending = [u \in Users |-> <<>>]

Ask(u, value) ==
    /\ pending' = [pending EXCEPT ![u] = Append(@, value)]
    /\ UNCHANGED likes

Save(u) ==
    /\ pending[u] # <<>>
    /\ likes' = [likes EXCEPT ![u] = Head(pending[u])]
    /\ pending' = [pending EXCEPT ![u] = Tail(@)]

Refuse(u) ==
    /\ pending[u] # <<>>
    /\ pending' = [pending EXCEPT ![u] = Tail(@)]
    /\ UNCHANGED likes

Next ==
    \E u \in Users :
        \/ \E value \in BOOLEAN : Ask(u, value)
        \/ Save(u)
        \/ Refuse(u)

Spec == Init /\ [][Next]_book
=============================================================================
