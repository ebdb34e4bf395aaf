---------------------------- MODULE MCEnrichment ----------------------------
(* A small instance of Enrichment for TLC: three artists, a label and a master. *)
EXTENDS Enrichment, TLC

MCEdgeType == [member |-> "MEMBER_OF", teacher |-> "TAUGHT"]

MCFacts == {<<1, "MEMBER_OF", 2>>, <<3, "TAUGHT", 1>>}

Forward(type, target) == [type |-> type, target |-> target, backward |-> FALSE]
Backward(type, target) == [type |-> type, target |-> target, backward |-> TRUE]
Record(id, relations) == [id |-> id, row |-> "row", relations |-> relations]

Member == Record(1, <<Forward("member", 2), Backward("teacher", 3)>>)
MemberBefore == Record(1, <<Forward("member", 2), Forward("sibling", 3)>>)
Band == Record(2, <<Backward("member", 1), Forward("teacher", NoTarget)>>)
Label == Record(4, <<>>)
Master == Record(5, <<>>)
NoMatch == Record(0, <<>>)

(* Both ends at once, a target without an id, duplicates; a record of an unknown label *)
MCArtistBatches == {<<Member, Band>>, <<Member, MemberBefore>>}
MCLabelBatches == {<<Label, NoMatch>>}
MCMasterBatches == {<<Master>>}

(* Transactions are interchangeable: no definition picks one by name *)
FlushSymmetry == Permutations(Flushes)
=============================================================================
