---------------------------- MODULE ReleaseMedia ----------------------------
(***************************************************************************)
(* The release projection (_projections.py): the payload-hash gate, the    *)
(* collapse of duplicates in a batch, the media of a release reconciled    *)
(* with the shared Medium vocabulary, the prune of orphaned media and the  *)
(* locks concurrent flushes take, beside the Discogs enricher.             *)
(*                                                                         *)
(* enrich_release runs the same statements in the same order as            *)
(* enrich_releases_batch on a batch of one, so it is not modelled apart.   *)
(* The database holds write locks to the end of a transaction and shows    *)
(* its writes to others at the commit.                                     *)
(***************************************************************************)
EXTENDS Integers, Sequences, FiniteSets, SequencesExt, Enumeration

CONSTANTS
    Releases,     \* Discogs ids of releases
    Media,        \* ids of the canonical media vocabulary
    Family,       \* the family of each medium
    NoBlock,      \* the items of a record without a media block
    NoHash,       \* mb_hash of a release that was never enriched
    Batches,      \* the batches of records a flush may have to write
    DiscogsEdges, \* the (release, medium) pairs the Discogs enricher knows
    Flushes,      \* transactions that may be open at once
    nobody,       \* the holder of a free lock
    REPLAY_GATE   \* MB_REPLAY_GATE

Families == {Family[m] : m \in Media}

ASSUME VocabularyAssumption == IsFiniteSet(Media) /\ Media \subseteq Nat /\ Family \in [Media -> Nat]
ASSUME BatchesAssumption ==
    \A b \in Batches :
        /\ b \in Seq({b[i] : i \in DOMAIN b})
        /\ \A i \in DOMAIN b : b[i].items # NoBlock => b[i].items \in Seq([medium : Int, qty : Int])
ASSUME DiscogsAssumption == DiscogsEdges \subseteq Releases \X Media
ASSUME GateAssumption == REPLAY_GATE \in BOOLEAN /\ nobody \notin Flushes

VARIABLES
    nodes,     \* Release nodes that are in the graph
    release,   \* what this service wrote on and around each of them
    media,     \* Medium nodes
    discogs,   \* ISSUED_ON edges of the Discogs enricher
    stage,     \* the statement each flush is at
    batch,     \* the records of each flush
    changed,   \* the rows of the batch that pass the gate
    want,      \* locks the statement still has to take, in order
    holder,    \* who holds the lock of each node
    pruned     \* media the stale sweep of each flush found orphaned

graphVars == <<nodes, release, media, discogs>>
flushVars == <<stage, batch, changed, want, holder, pruned>>
vars == <<graphVars, flushVars>>

Locks == ({"release"} \X Releases) \cup ({"family"} \X Families) \cup ({"medium"} \X Media)

TypeOK ==
    /\ nodes \subseteq Releases
    /\ \A r \in Releases : LET node == release[r] IN
           /\ node.families \subseteq Families
           /\ node.medium_count \in Nat
           /\ DOMAIN node.issued \subseteq Media
           /\ node.issued \in [DOMAIN node.issued -> Nat \ {0}]
    /\ media \subseteq Media
    /\ discogs \subseteq DiscogsEdges
    /\ stage \in [Flushes -> {"idle", "releases", "families", "media", "edges"}]
    /\ batch \in [Flushes -> Batches \cup {<<>>}]
    /\ \A x \in Flushes : changed[x] \subseteq DOMAIN batch[x]
    /\ want \in [Flushes -> Seq(Locks)]
    /\ holder \in [Locks -> Flushes \cup {nobody}]
    /\ pruned \in [Flushes -> SUBSET Media]

Init ==
    /\ nodes \in SUBSET Releases
    /\ release = [r \in Releases |-> [mb_hash |-> NoHash, families |-> {}, medium_count |-> 0, issued |-> <<>>]]
    /\ media = {}
    /\ discogs = {}
    /\ stage = [x \in Flushes |-> "idle"]
    /\ batch = [x \in Flushes |-> <<>>]
    /\ changed = [x \in Flushes |-> {}]
    /\ want = [x \in Flushes |-> <<>>]
    /\ holder = [l \in Locks |-> nobody]
    /\ pruned = [x \in Flushes |-> {}]

-----------------------------------------------------------------------------
(* What one record projects. *)

(* An item without a canonical medium is skipped *)
MediumIds(items) == {items[i].medium : i \in DOMAIN items} \cap Media

(* Mutant: the quantity as it comes *)
QuantityVerbatim(item) == item.qty

Quantity(item) == IF item.qty >= 1 THEN item.qty ELSE 1

(* media_edge_rows: one row per medium, with the quantities of its items added up *)
EdgeRows(items) ==
    [m \in MediumIds(items) |->
        MapThenSumSet(LAMBDA i : Quantity(items[i]), {i \in DOMAIN items : items[i].medium = m})]

FamiliesOf(items) == {Family[m] : m \in MediumIds(items)}

MediaDigest(items) ==
    IF items = NoBlock THEN NoBlock ELSE <<FamiliesOf(items), Len(items), EdgeRows(items)>>

(* payload_hash, a digest without collisions *)
Digest(rec) == <<rec.row, MediaDigest(rec.items)>>

(* A missing mb_hash, or a missing media block, is not taken for a digest *)
ASSUME DigestAssumption ==
    \A b \in Batches : \A i \in DOMAIN b :
        /\ Digest(b[i]) # NoHash
        /\ b[i].items # NoBlock => MediaDigest(b[i].items) # NoBlock

(* Whether the gate lets rec write the node *)
Changed(node, rec) == ~REPLAY_GATE \/ node.mb_hash # Digest(rec)

(* Mutant: a block without items is taken for no block *)
WrittenIfItems(node, rec) ==
    IF rec.items = NoBlock \/ rec.items = <<>>
    THEN [node EXCEPT !.mb_hash = Digest(rec)]
    ELSE [mb_hash |-> Digest(rec), families |-> FamiliesOf(rec.items),
          medium_count |-> Len(rec.items), issued |-> EdgeRows(rec.items)]

(* The gated SET and reconcile_release_media: the media only follow a record that has a block *)
Written(node, rec) ==
    IF rec.items = NoBlock
    THEN [node EXCEPT !.mb_hash = Digest(rec)]
    ELSE [mb_hash |-> Digest(rec), families |-> FamiliesOf(rec.items),
          medium_count |-> Len(rec.items), issued |-> EdgeRows(rec.items)]

(* Mutant: the first duplicate wins *)
RowsFirst(b) ==
    {i \in DOMAIN b : b[i].release \in Releases /\ \A j \in 1 .. i - 1 : b[j].release # b[i].release}

(* _run_entity_batch: one row per Discogs id, its last record *)
Rows(b) ==
    {i \in DOMAIN b : b[i].release \in Releases /\ \A j \in i + 1 .. Len(b) : b[j].release # b[i].release}

-----------------------------------------------------------------------------
(* Locks. *)

(* Rows of the flush that reconcile media *)
Summaries(x) == {i \in changed[x] : batch[x][i].items # NoBlock}

Attached(x) == UNION {MediumIds(batch[x][i].items) : i \in Summaries(x)}

(* This service's edges to media the release no longer has *)
StaleEdges(x) ==
    UNION {LET r == batch[x][i].release
           IN  {r} \X (DOMAIN release[r].issued \ MediumIds(batch[x][i].items)) : i \in Summaries(x)}

Issued(x) == UNION {DOMAIN release[batch[x][i].release].issued : i \in Summaries(x)}

InOrder(kind, S) ==
    LET s == Ascending(S) IN [k \in DOMAIN s |-> <<kind, s[k]>>]

(* Mutant: the families of the detached media in a second pass *)
FamilyLocksInTwoPasses(x) ==
    LET attached == {Family[m] : m \in Attached(x)}
    IN  InOrder("family", attached) \o InOrder("family", {Family[m] : m \in Issued(x)} \ attached)

(* LOCK_MEDIA_FAMILIES_CYPHER, with the families of the media the releases had before *)
FamilyLocks(x) == InOrder("family", {Family[m] : m \in Attached(x) \cup Issued(x)})

(* LOCK_MEDIA_MEDIUMS_CYPHER, with the media this write detaches *)
MediumLocks(x) == InOrder("medium", Attached(x) \cup {e[2] : e \in StaleEdges(x)})

(* Mutant: the orphan check before the stale edges are deleted *)
OrphansTooEarly(x) ==
    {e[2] : e \in {s \in StaleEdges(x) :
        /\ ~\E r \in Releases : s[2] \in DOMAIN release[r].issued
        /\ ~\E r \in Releases : <<r, s[2]>> \in discogs}}

(* Mutant: only this service's edges keep a medium *)
OrphansOfSource(x) ==
    {e[2] : e \in {s \in StaleEdges(x) :
        ~\E r \in Releases : s[2] \in DOMAIN release[r].issued /\ <<r, s[2]>> \notin StaleEdges(x)}}

(* PRUNE_ORPHAN_MEDIUM: media left without an ISSUED_ON edge of any catalog *)
Orphans(x) ==
    {e[2] : e \in {s \in StaleEdges(x) :
        /\ ~\E r \in Releases : s[2] \in DOMAIN release[r].issued /\ <<r, s[2]>> \notin StaleEdges(x)
        /\ ~\E r \in Releases : <<r, s[2]>> \in discogs}}

-----------------------------------------------------------------------------
(* A flush, statement by statement. *)

Goto(x, s) == stage' = [stage EXCEPT ![x] = s]

Begin(x, b) ==
    LET rows == {i \in Rows(b) : b[i].release \in nodes /\ Changed(release[b[i].release], b[i])}
        s    == Ascending(rows)
    IN  /\ stage[x] = "idle"
        /\ Goto(x, "releases")
        /\ batch' = [batch EXCEPT ![x] = b]
        /\ changed' = [changed EXCEPT ![x] = rows]
        /\ want' = [want EXCEPT ![x] = [k \in DOMAIN s |-> <<"release", b[s[k]].release>>]]
        /\ UNCHANGED <<graphVars, holder, pruned>>

Acquire(x) ==
    /\ want[x] # <<>>
    /\ holder[Head(want[x])] = nobody
    /\ holder' = [holder EXCEPT ![Head(want[x])] = x]
    /\ want' = [want EXCEPT ![x] = Tail(@)]
    /\ UNCHANGED <<graphVars, stage, batch, changed, pruned>>

LockFamilies(x) ==
    /\ stage[x] = "releases" /\ want[x] = <<>>
    /\ Summaries(x) # {}
    /\ Goto(x, "families")
    /\ want' = [want EXCEPT ![x] = FamilyLocks(x)]
    /\ UNCHANGED <<graphVars, batch, changed, holder, pruned>>

LockMedia(x) ==
    /\ stage[x] = "families" /\ want[x] = <<>>
    /\ Goto(x, "media")
    /\ want' = [want EXCEPT ![x] = MediumLocks(x)]
    /\ UNCHANGED <<graphVars, batch, changed, holder, pruned>>

(* RELEASE_MEDIA_SUMMARY_BATCH_CYPHER: the stale sweep *)
Sweep(x) ==
    /\ stage[x] = "media" /\ want[x] = <<>>
    /\ Goto(x, "edges")
    /\ pruned' = [pruned EXCEPT ![x] = Orphans(x)]
    /\ UNCHANGED <<graphVars, batch, changed, want, holder>>

Leave(x) ==
    /\ Goto(x, "idle")
    /\ batch' = [batch EXCEPT ![x] = <<>>]
    /\ changed' = [changed EXCEPT ![x] = {}]
    /\ want' = [want EXCEPT ![x] = <<>>]
    /\ pruned' = [pruned EXCEPT ![x] = {}]
    /\ holder' = [l \in Locks |-> IF holder[l] = x THEN nobody ELSE holder[l]]

(* RELEASE_MEDIA_EDGES_BATCH_CYPHER and the commit: a pruned medium may come back at once *)
Commit(x) ==
    /\ \/ stage[x] = "edges"
       \/ stage[x] = "releases" /\ want[x] = <<>> /\ Summaries(x) = {}
    /\ release' = [r \in Releases |->
           IF \E i \in changed[x] : batch[x][i].release = r
           THEN Written(release[r], batch[x][CHOOSE i \in changed[x] : batch[x][i].release = r])
           ELSE release[r]]
    /\ media' = (media \ pruned[x]) \cup Attached(x)
    /\ Leave(x)
    /\ UNCHANGED <<nodes, discogs>>

(***************************************************************************)
(* Flushes that wait for each other only.                                  *)
(***************************************************************************)
Blocked(x) == want[x] # <<>> /\ holder[Head(want[x])] # nobody

Knot(S) == S # {} /\ \A x \in S : Blocked(x) /\ holder[Head(want[x])] \in S

(* The database ends a deadlock: it rolls one of the transactions back, which the driver retries *)
Abort(x) ==
    /\ \E S \in SUBSET Flushes : x \in S /\ Knot(S)
    /\ Leave(x)
    /\ UNCHANGED graphVars

-----------------------------------------------------------------------------
(* The Discogs enricher. *)

AddRelease(r) ==
    /\ r \notin nodes
    /\ nodes' = nodes \cup {r}
    /\ UNCHANGED <<release, media, discogs, flushVars>>

(* It waits for the medium's lock, and then finds the medium or creates it *)
Attach(r, m) ==
    /\ r \in nodes
    /\ <<r, m>> \notin discogs
    /\ holder[<<"medium", m>>] = nobody
    /\ discogs' = discogs \cup {<<r, m>>}
    /\ media' = media \cup {m}
    /\ UNCHANGED <<nodes, release, flushVars>>

Detach(r, m) ==
    /\ <<r, m>> \in discogs
    /\ holder[<<"medium", m>>] = nobody
    /\ discogs' = discogs \ {<<r, m>>}
    /\ UNCHANGED <<nodes, release, media, flushVars>>

-----------------------------------------------------------------------------
Next ==
    \/ \E x \in Flushes : \/ \E b \in Batches : Begin(x, b)
                          \/ Acquire(x)
                          \/ LockFamilies(x)
                          \/ LockMedia(x)
                          \/ Sweep(x)
                          \/ Commit(x)
                          \/ Abort(x)
    \/ \E r \in Releases : AddRelease(r)
    \/ \E e \in DiscogsEdges : Attach(e[1], e[2]) \/ Detach(e[1], e[2])

Spec == Init /\ [][Next]_vars

-----------------------------------------------------------------------------
(* Properties. *)

(***************************************************************************)
(* The digest on a release tells the truth about its media: with the       *)
(* digest of a record that has a media block, the release carries exactly  *)
(* that block.  The gate skips the media statements on the strength of     *)
(* this (enrich_releases_batch).                                           *)
(***************************************************************************)
DigestTellsMedia ==
    \A r \in Releases :
        LET node == release[r]
        IN  node.mb_hash # NoHash /\ node.mb_hash[2] # NoBlock =>
                node.mb_hash[2] = <<node.families, node.medium_count, node.issued>>

(***************************************************************************)
(* No edge is left without its medium: the prune spares what the Discogs   *)
(* enricher, another release or a concurrent flush still uses or is about  *)
(* to use (PRUNE_ORPHAN_MEDIUM).                                           *)
(***************************************************************************)
NoDanglingEdge ==
    /\ \A r \in Releases : DOMAIN release[r].issued \subseteq media
    /\ \A e \in discogs : e[2] \in media

HasEdge(m) ==
    \/ \E r \in Releases : m \in DOMAIN release[r].issued
    \/ \E r \in Releases : <<r, m>> \in discogs

(***************************************************************************)
(* A flush that detaches the last edge of a medium takes the medium along: *)
(* two releases that drop a medium at once do not each leave it to the     *)
(* other (the stale sweep and its locks).                                  *)
(***************************************************************************)
NoOrphanLeft ==
    [][\A m \in Media : HasEdge(m) /\ ~HasEdge(m)' /\ UNCHANGED discogs => m \notin media']_vars

(***************************************************************************)
(* The global lock order keeps the vocabulary free of deadlocks: no flush  *)
(* that waits for a family or a medium is in a circle of waiting flushes.  *)
(* Releases are locked in the order of the batch, and there a deadlock is  *)
(* left to the database and the driver's retry.                            *)
(***************************************************************************)
VocabularyNeverDeadlocks ==
    \A S \in SUBSET Flushes : Knot(S) => \A x \in S : stage[x] = "releases"

(***************************************************************************)
(* The same for every lock, as the comment on NEO4J_SERIALIZE_FLUSHES in   *)
(* brainzgraphinator.py says of parallel flushes.                          *)
(***************************************************************************)
FlushesNeverDeadlock == \A S \in SUBSET Flushes : ~Knot(S)

(* enrich_release on one record after the other *)
Sequentially(r, b) ==
    FoldLeft(LAMBDA node, rec : IF rec.release = r /\ Changed(node, rec) THEN Written(node, rec) ELSE node,
             release[r], b)

(* No other flush changed a release since this one compared its digest *)
GateIsFresh(x) ==
    \A i \in Rows(batch[x]) \ changed[x] :
        batch[x][i].release \in nodes => ~Changed(release[batch[x][i].release], batch[x][i])

LastHasBlock(r, b) ==
    \A i \in Rows(b) : b[i].release = r =>
        b[i].items # NoBlock \/ \A j \in 1 .. i - 1 : b[j].release # r

(***************************************************************************)
(* One UNWIND over the last record of each release leaves the release as   *)
(* enrich_release on every record in turn would, whatever the gate skips,  *)
(* when the last of several duplicates has a media block.                  *)
(***************************************************************************)
CollapseIsExact ==
    [][\A x \in Flushes : Commit(x) /\ GateIsFresh(x) =>
           \A r \in nodes : LastHasBlock(r, batch[x]) => release'[r] = Sequentially(r, batch[x])]_vars

(***************************************************************************)
(* The same for every batch, as the docstring of _run_entity_batch and     *)
(* docs/graph-enrichment.md say.                                           *)
(***************************************************************************)
BatchIsSequential ==
    [][\A x \in Flushes : Commit(x) /\ GateIsFresh(x) =>
           \A r \in nodes : release'[r] = Sequentially(r, batch[x])]_vars
=============================================================================
