---------------------------- MODULE Enumeration ----------------------------
(***************************************************************************)
(* A set of integers in order: positions kept by a list comprehension, or  *)
(* rows after an ORDER BY.  The definition is not recursive, so that the   *)
(* provers can use it.                                                     *)
(***************************************************************************)
EXTENDS Integers, FiniteSets

Ascending(S) == CHOOSE s \in [1 .. Cardinality(S) -> S] : \A i, j \in DOMAIN s : i < j => s[i] < s[j]
=============================================================================
