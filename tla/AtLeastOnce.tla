---------------------------- MODULE AtLeastOnce ----------------------------
(***************************************************************************)
(* What the enricher promises about the messages of one queue              *)
(* (docs/database-resilience.md, "Delivery outcomes"): a record is         *)
(* acknowledged only after its graph change is committed, a rejected       *)
(* identifier or an exhausted delivery is dead-lettered, everything else   *)
(* comes back, and a settled message stays settled.                        *)
(***************************************************************************)
EXTENDS Naturals, FiniteSets

CONSTANTS
    Records,
    Writable,   \* records some transaction can write
    Signals,    \* control messages: acknowledged without a write
    Rejected,   \* records the service refuses for good
    Limit       \* returns a message survives

VARIABLES
    status,     \* "ready", "acked" or "dead"
    attempts,   \* returns of each message
    applied     \* records written to the graph

Init ==
    /\ status = [r \in Records |-> "ready"]
    /\ attempts = [r \in Records |-> 0]
    /\ applied = {}

(* One transaction writes some records; writing a record again is harmless *)
Apply ==
    /\ \E S \in SUBSET Writable : applied' = applied \cup S
    /\ UNCHANGED <<status, attempts>>

Acknowledge(r) ==
    /\ status[r] = "ready"
    /\ r \in applied \cup Signals
    /\ status' = [status EXCEPT ![r] = "acked"]
    /\ UNCHANGED <<attempts, applied>>

Reject(r) ==
    /\ status[r] = "ready"
    /\ r \in Rejected
    /\ status' = [status EXCEPT ![r] = "dead"]
    /\ UNCHANGED <<attempts, applied>>

(* Unsettled messages come back, each counted once; past the limit one is dead-lettered *)
Return(S) ==
    /\ \A r \in S : status[r] = "ready"
    /\ attempts' = [r \in Records |-> IF r \in S THEN attempts[r] + 1 ELSE attempts[r]]
    /\ status' = [r \in Records |-> IF r \in S /\ attempts[r] >= Limit THEN "dead" ELSE status[r]]
    /\ UNCHANGED applied

Next ==
    \/ Apply
    \/ \E r \in Records : Acknowledge(r) \/ Reject(r)
    \/ \E S \in SUBSET Records : Return(S)

Spec == Init /\ [][Next]_<<status, attempts, applied>>
=============================================================================
