---------------------------- MODULE MCTagCapture ----------------------------
(* A small instance of TagCapture for TLC. *)
EXTENDS TagCapture

(* A tag comes twice *)
MCTags == <<"a", "b", "a">>

(* Three genres, one of them without styles; with NONE that is one first choice too many for the beam *)
MCGenres == [g \in 1 .. 3 |-> IF g = 2 THEN {} ELSE {4}]
=============================================================================
