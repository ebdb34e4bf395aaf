--------------------------- MODULE MCReleaseMedia ---------------------------
(* Small instances of ReleaseMedia for TLC. *)
EXTENDS ReleaseMedia

(* Two media, each of a family of its own *)
MCFamily == [m \in Media |-> m]

Record(r, items) == [release |-> r, row |-> "row", items |-> items]

Vinyl == <<[medium |-> 1, qty |-> 1]>>
Disc == <<[medium |-> 2, qty |-> 0]>>
BoxSet == <<[medium |-> 2, qty |-> 1], [medium |-> 1, qty |-> 2], [medium |-> 0, qty |-> 1], [medium |-> 2, qty |-> 1]>>

(* Duplicates, releases in both orders, a changed mind and a record with no Discogs id *)
MCBatches ==
    {<<Record(1, Vinyl), Record(2, BoxSet)>>, <<Record(2, Disc), Record(1, BoxSet)>>,
     <<Record(1, BoxSet), Record(1, Disc)>>, <<Record(2, Vinyl)>>, <<Record(2, NoBlock)>>,
     <<Record(1, <<>>), Record(0, Vinyl)>>}

MCDiscogsEdges == {<<1, 1>>, <<2, 2>>}

(* A duplicate without a media block follows one that has it *)
MCDuplicates == MCBatches \cup {<<Record(1, Vinyl), Record(1, NoBlock)>>}
=============================================================================
