------------------------ MODULE MCConsumerLifecycle -------------------------
(* Small instances of ConsumerLifecycle for TLC. *)
EXTENDS ConsumerLifecycle

MCTypes == <<"artists", "labels">>

(* One extraction: both streams end *)
OneExtraction == [t \in Types |-> <<"record", "end">>]

(* The terminal signals alone, as after a restart behind the last record *)
SignalsOnly == [t \in Types |-> <<"end">>]

(* A record follows when both streams are over *)
Reopened == [t \in Types |-> IF t = "artists" THEN <<"end", "record">> ELSE <<"end">>]

Waiting(t) == Cardinality(At(t, "unpublished"))

(* The whole script without faults; or one fault with one stream over and the other not *)
ServedInit ==
    /\ Init
    /\ Waiting("labels") = 1
    /\ \/ Waiting("artists") = 2 /\ failures = MaxFailures
       \/ Waiting("artists") = 1 /\ failures = 0

ServedSpec == ServedInit /\ [][Next]_vars /\ Fairness
=============================================================================
