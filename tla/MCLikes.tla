------------------------------ MODULE MCLikes -------------------------------
(* The devices of two or three users and one post, for TLC. *)
EXTENDS Likes

CONSTANTS ann, bob, cat
=============================================================================
