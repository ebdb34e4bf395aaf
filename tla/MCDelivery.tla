----------------------------- MODULE MCDelivery -----------------------------
(* Small instances of Delivery for TLC. *)
EXTENDS Delivery

CONSTANTS n1, n2

MCNodes == {n1, n2}

(* Records 1 and 2 enrich the same node, record 3 matches nothing *)
MCTarget == [r \in Records |-> CASE r \in {1, 2} -> n1
                                 [] r = 3        -> NoNode
                                 [] OTHER        -> n2]

MCAttempts == DeliveryLimit + 1
=============================================================================
