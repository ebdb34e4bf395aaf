--------------------------- MODULE MCWriteBatcher ---------------------------
(* Small instances of WriteBatcher for TLC. *)
EXTENDS WriteBatcher

CONSTANTS n1, n2

MCNodes == {n1, n2}

(* Two records of one node, one of another and one that matches nothing *)
MCTarget == [r \in Records |-> CASE r \in {1, 3} -> n1
                                 [] r = 4        -> n2
                                 [] OTHER        -> NoNode]
=============================================================================
