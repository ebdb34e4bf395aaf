----------------------------- MODULE Enrichment -----------------------------
(***************************************************************************)
(* The artist, label and master projections (_projections.py): the digest  *)
(* that gates the properties of a node, the relationship edges between     *)
(* artists with a digest of their own, in the batch path and in the        *)
(* per-message path that also replays a failed batch.                      *)
(*                                                                         *)
(* A transaction shows its writes at its commit.  Its locks are left out:  *)
(* they only keep some of these interleavings from happening, and a        *)
(* deadlock is a rollback.  Artists come from the Discogs enricher, which  *)
(* adds them in its own time.                                              *)
(***************************************************************************)
EXTENDS Naturals, Sequences

CONSTANTS
    Entities,     \* Discogs ids of artists, labels and masters
    Artists,      \* those of artists
    EdgeType,     \* MB_RELATIONSHIP_MAP: the edge of each supported relation
    Facts,        \* the relationships MusicBrainz knows, <<from, edge, to>>
    ArtistBatches, LabelBatches, MasterBatches,  \* the batches of records a flush may have to write
    NoTarget,     \* a relation whose target has no Discogs id
    NoHash,       \* a digest that was never stored
    Flushes,      \* transactions that may be open at once
    REPLAY_GATE   \* MB_REPLAY_GATE

Batches == ArtistBatches \cup LabelBatches \cup MasterBatches

Edges == Artists \X {EdgeType[k] : k \in DOMAIN EdgeType} \X Artists

Relation(rel) == rel.backward \in BOOLEAN /\ rel.target \in Artists \cup {NoTarget}

ASSUME EntitiesAssumption == Artists \subseteq Entities /\ NoTarget \notin Artists
ASSUME FactsAssumption == Facts \subseteq Edges
ASSUME GateAssumption == REPLAY_GATE \in BOOLEAN
ASSUME NoHashAssumption == \A b \in Batches : \A i \in DOMAIN b : NoHash # b[i].relations
ASSUME RecordsAssumption ==
    \A b \in Batches :
        /\ b \in Seq([id : {b[i].id : i \in DOMAIN b}, row : {b[i].row : i \in DOMAIN b},
                      relations : {b[i].relations : i \in DOMAIN b}])
        /\ \A i \in DOMAIN b : \A k \in DOMAIN b[i].relations : Relation(b[i].relations[k])
ASSUME KindsAssumption ==
    /\ \A b \in ArtistBatches : \A i \in DOMAIN b : b[i].id \in Entities => b[i].id \in Artists
    /\ \A b \in LabelBatches \cup MasterBatches : \A i \in DOMAIN b : b[i].id \notin Artists /\ b[i].relations = <<>>

(* Both ends of a relationship may tell it, each from its own side *)
ASSUME ToldFromBothSides ==
    \A b \in Batches : \A i \in DOMAIN b : \A k \in DOMAIN b[i].relations :
        LET rel == b[i].relations[k]
        IN  rel.type \in DOMAIN EdgeType /\ rel.target # NoTarget =>
                IF rel.backward THEN <<rel.target, EdgeType[rel.type], b[i].id>> \in Facts
                                ELSE <<b[i].id, EdgeType[rel.type], rel.target>> \in Facts

VARIABLES
    nodes,           \* entities that are in the graph
    mb_hash,         \* the digest of the record last written on each
    relations_hash,  \* mb_relations_hash of each artist
    edges,           \* relationship edges in the graph
    path,            \* what each flush runs: "idle", "batch" or "single"
    batch,           \* its records
    seen,            \* the artists in the graph at its first statement
    changed,         \* the rows that pass the gate on mb_hash
    due,             \* the rows whose relations are projected
    todo,            \* <<row, edge>> pairs no statement has come to yet
    made,            \* the edges merged so far
    missed           \* rows with a relation that could not be projected

graphVars == <<nodes, mb_hash, relations_hash, edges>>
flushVars == <<path, batch, seen, changed, due, todo, made, missed>>
vars == <<graphVars, flushVars>>

TypeOK ==
    /\ nodes \subseteq Entities
    /\ DOMAIN mb_hash = Entities /\ DOMAIN relations_hash = Artists
    /\ edges \subseteq Edges
    /\ path \in [Flushes -> {"idle", "batch", "single"}]
    /\ DOMAIN batch = Flushes /\ DOMAIN changed = Flushes
    /\ DOMAIN due = Flushes /\ DOMAIN todo = Flushes /\ DOMAIN missed = Flushes
    /\ seen \in [Flushes -> SUBSET Artists]
    /\ \A x \in Flushes :
        /\ changed[x] \subseteq DOMAIN batch[x] /\ due[x] \subseteq DOMAIN batch[x]
        /\ todo[x] \subseteq due[x] \X Edges
        /\ missed[x] \subseteq due[x]
    /\ made \in [Flushes -> SUBSET Edges]

Init ==
    /\ nodes \in SUBSET Entities
    /\ mb_hash = [e \in Entities |-> NoHash]
    /\ relations_hash = [a \in Artists |-> NoHash]
    /\ edges = {}
    /\ path = [x \in Flushes |-> "idle"]
    /\ batch = [x \in Flushes |-> <<>>]
    /\ seen = [x \in Flushes |-> {}]
    /\ changed = [x \in Flushes |-> {}]
    /\ due = [x \in Flushes |-> {}]
    /\ todo = [x \in Flushes |-> {}]
    /\ made = [x \in Flushes |-> {}]
    /\ missed = [x \in Flushes |-> {}]

-----------------------------------------------------------------------------
(* What one record projects. *)

Supported(rec) == {k \in DOMAIN rec.relations : rec.relations[k].type \in DOMAIN EdgeType}

(* Mutant: the direction of a relation is ignored *)
EdgeOfForward(id, rel) == <<id, EdgeType[rel.type], rel.target>>

(* Each path turns a relation round in code of its own: create_relationship_edges_batch... *)
EdgeOfRow(id, rel) ==
    IF rel.backward THEN <<rel.target, EdgeType[rel.type], id>> ELSE <<id, EdgeType[rel.type], rel.target>>

(* ...and create_relationship_edges *)
EdgeOfRelation(id, rel) ==
    IF rel.backward THEN <<rel.target, EdgeType[rel.type], id>> ELSE <<id, EdgeType[rel.type], rel.target>>

EdgeOf(kind, id, rel) == IF kind = "batch" THEN EdgeOfRow(id, rel) ELSE EdgeOfRelation(id, rel)

(* Mutant: a relation without a target is not skipped *)
WantedBlind(kind, rec) == {EdgeOf(kind, rec.id, rec.relations[k]) : k \in Supported(rec)}

(* The edges a path makes of the relations that have a target *)
Wanted(kind, rec) ==
    {EdgeOf(kind, rec.id, rec.relations[k]) : k \in {k \in Supported(rec) : rec.relations[k].target # NoTarget}}

HasBlindRelation(rec) == \E k \in Supported(rec) : rec.relations[k].target = NoTarget

(* payload_hash of the row and of all relations, a digest without collisions *)
Digest(rec) == <<rec.row, rec.relations>>

RelationsDigest(rec) == rec.relations

(* One row per Discogs id, its last record *)
Rows(b) ==
    {i \in DOMAIN b : b[i].id \in Entities /\ \A j \in DOMAIN b : j > i => b[j].id # b[i].id}

Matched(b) == {i \in Rows(b) : b[i].id \in nodes}

Changed(b) == {i \in Matched(b) : ~REPLAY_GATE \/ mb_hash[b[i].id] # Digest(b[i])}

(* Mutant: the node's own digest gates its relations, too *)
DueIfChanged(b) == Changed(b)

(* enrich_artists_batch gates the relations by the digest of the last complete set *)
Due(b) == {i \in Matched(b) : ~REPLAY_GATE \/ relations_hash[b[i].id] # RelationsDigest(b[i])}

-----------------------------------------------------------------------------
(* A transaction, statement by statement. *)

Start(x, kind, b, rows) ==
    /\ path[x] = "idle"
    /\ path' = [path EXCEPT ![x] = kind]
    /\ batch' = [batch EXCEPT ![x] = b]
    /\ seen' = [seen EXCEPT ![x] = nodes \cap Artists]
    /\ changed' = [changed EXCEPT ![x] = Changed(b)]
    /\ due' = [due EXCEPT ![x] = rows]
    /\ todo' = [todo EXCEPT ![x] = UNION {{i} \X Wanted(kind, b[i]) : i \in rows}]
    /\ missed' = [missed EXCEPT ![x] = {i \in rows : HasBlindRelation(b[i])}]
    /\ UNCHANGED <<graphVars, made>>

EnrichArtistsBatch(x, b) == Start(x, "batch", b, Due(b))

EnrichLabelsBatch(x, b) == Start(x, "batch", b, {})

EnrichReleaseGroupsBatch(x, b) == Start(x, "batch", b, {})

(* The per-message path never gates the relations *)
EnrichArtist(x, rec) == Start(x, "single", <<rec>>, Matched(<<rec>>))

EnrichLabel(x, rec) == Start(x, "single", <<rec>>, {})

EnrichReleaseGroup(x, rec) == Start(x, "single", <<rec>>, {})

(* One statement: both ends are matched, or nothing is written *)
Merge(x, rows) ==
    LET ok == {r \in rows : r[2][1] \in nodes /\ r[2][3] \in nodes}
    IN  /\ todo' = [todo EXCEPT ![x] = @ \ rows]
        /\ made' = [made EXCEPT ![x] = @ \cup {r[2] : r \in ok}]
        /\ missed' = [missed EXCEPT ![x] = @ \cup {r[1] : r \in rows \ ok}]
        /\ UNCHANGED <<graphVars, path, batch, seen, changed, due>>

(* create_relationship_edges_batch: one statement per edge type *)
MergeType(x) ==
    /\ path[x] = "batch"
    /\ \E r \in todo[x] : Merge(x, {s \in todo[x] : s[2][2] = r[2][2]})

(* create_relationship_edges: one statement per relation *)
MergeRelation(x) ==
    /\ path[x] = "single"
    /\ \E r \in todo[x] : Merge(x, {r})

(* Mutant: the digest is stored whatever was projected *)
DoneAlways(x) == IF path[x] = "batch" THEN due[x] ELSE {}

(* The rows whose relations digest is stored *)
Done(x) == IF path[x] = "batch" THEN due[x] \ missed[x] ELSE {}

Leave(x) ==
    /\ path' = [path EXCEPT ![x] = "idle"]
    /\ batch' = [batch EXCEPT ![x] = <<>>]
    /\ seen' = [seen EXCEPT ![x] = {}]
    /\ changed' = [changed EXCEPT ![x] = {}]
    /\ due' = [due EXCEPT ![x] = {}]
    /\ todo' = [todo EXCEPT ![x] = {}]
    /\ made' = [made EXCEPT ![x] = {}]
    /\ missed' = [missed EXCEPT ![x] = {}]

(* The entity's row in S, which has one row per entity *)
RowOf(x, e, S) == batch[x][CHOOSE i \in S : batch[x][i].id = e]

Commit(x) ==
    /\ path[x] # "idle"
    /\ todo[x] = {}
    /\ mb_hash' = [e \in Entities |-> IF \E i \in changed[x] : batch[x][i].id = e
                                      THEN Digest(RowOf(x, e, changed[x])) ELSE mb_hash[e]]
    /\ relations_hash' = [a \in Artists |-> IF \E i \in Done(x) : batch[x][i].id = a
                                            THEN RelationsDigest(RowOf(x, a, Done(x))) ELSE relations_hash[a]]
    /\ edges' = edges \cup made[x]
    /\ Leave(x)
    /\ UNCHANGED nodes

(* A failure or a deadlock rolls the transaction back; its records come again, alone or together *)
Abort(x) ==
    /\ path[x] # "idle"
    /\ Leave(x)
    /\ UNCHANGED graphVars

(* The Discogs enricher adds a node *)
AddNode(e) ==
    /\ e \notin nodes
    /\ nodes' = nodes \cup {e}
    /\ UNCHANGED <<mb_hash, relations_hash, edges, flushVars>>

-----------------------------------------------------------------------------
Next ==
    \/ \E x \in Flushes :
        \/ \E b \in ArtistBatches : EnrichArtistsBatch(x, b) \/ \E i \in DOMAIN b : EnrichArtist(x, b[i])
        \/ \E b \in LabelBatches : EnrichLabelsBatch(x, b) \/ \E i \in DOMAIN b : EnrichLabel(x, b[i])
        \/ \E b \in MasterBatches : EnrichReleaseGroupsBatch(x, b) \/ \E i \in DOMAIN b : EnrichReleaseGroup(x, b[i])
        \/ MergeType(x)
        \/ MergeRelation(x)
        \/ Commit(x)
        \/ Abort(x)
    \/ \E e \in Entities : AddNode(e)

Spec == Init /\ [][Next]_vars

-----------------------------------------------------------------------------
(* Properties. *)

(***************************************************************************)
(* A stored relations digest is earned: the graph has an edge for every    *)
(* supported relation of that record, whichever targets came late and      *)
(* whatever ran in between.  Later replays are skipped on the strength of  *)
(* it (enrich_artists_batch).                                              *)
(***************************************************************************)
RelationsDigestEarned ==
    \A b \in ArtistBatches : \A i \in DOMAIN b :
        b[i].id \in Artists /\ relations_hash[b[i].id] = RelationsDigest(b[i]) =>
            Wanted("batch", b[i]) \subseteq edges /\ ~HasBlindRelation(b[i])

(***************************************************************************)
(* A replay resolves what it can: once a transaction that carries the last *)
(* record of an artist commits, every relation whose two ends were in the  *)
(* graph when it began is an edge, whether it was projected now or skipped *)
(* by the gate (enrich_artist, enrich_artists_batch).                      *)
(***************************************************************************)
ReplayResolves ==
    [][\A x \in Flushes : Commit(x) =>
           \A i \in Rows(batch[x]) : batch[x][i].id \in seen[x] =>
               \A e \in Wanted(path[x], batch[x][i]) : e[1] \in seen[x] /\ e[3] \in seen[x] => e \in edges']_vars

(***************************************************************************)
(* The records of both ends of a relationship write one and the same edge, *)
(* in a batch or alone: no edge is in the graph that MusicBrainz does not  *)
(* know in that direction (create_relationship_edges_batch and             *)
(* create_relationship_edges turn a relation round independently).         *)
(***************************************************************************)
EdgesAreFacts == edges \subseteq Facts
=============================================================================
