-------------------------- MODULE EnrichmentProofs --------------------------
(***************************************************************************)
(* Proofs about the artist, label and master projections, for every set of *)
(* entities, records, batches and concurrent transactions.                 *)
(***************************************************************************)
EXTENDS Enrichment, TLAPS

ArtistRecords == UNION {{b[i] : i \in DOMAIN b} : b \in ArtistBatches}

(* A row that names an artist is one of the artists' records *)
Carries ==
    \A x \in Flushes : \A i \in DOMAIN batch[x] :
        batch[x][i].id \in Artists => batch[x][i] \in ArtistRecords

(* Every edge written, merged or still to be merged is a known relationship *)
Known ==
    /\ edges \subseteq Facts
    /\ \A x \in Flushes : made[x] \subseteq Facts /\ \A r \in todo[x] : r[2] \in Facts

(* A row that missed nothing so far has merged its edges, or will *)
Tracked ==
    \A x \in Flushes : \A i \in due[x] \ missed[x] :
        /\ ~HasBlindRelation(batch[x][i])
        /\ \A e \in Wanted(path[x], batch[x][i]) : e \in made[x] \/ <<i, e>> \in todo[x]

(* What could be resolved when a transaction began is an edge, or will be when it commits *)
Resolving ==
    \A x \in Flushes :
        /\ seen[x] \subseteq nodes
        /\ \A i \in Rows(batch[x]) : batch[x][i].id \in seen[x] =>
            \A e \in Wanted(path[x], batch[x][i]) : e[1] \in seen[x] /\ e[3] \in seen[x] =>
                e \in edges \/ e \in made[x] \/ <<i, e>> \in todo[x]

(* RelationsDigestEarned, record by record *)
Earned ==
    \A r \in ArtistRecords :
        r.id \in Artists /\ relations_hash[r.id] = r.relations =>
            Wanted("batch", r) \subseteq edges /\ ~HasBlindRelation(r)

Inv == TypeOK /\ Carries /\ Known /\ Tracked /\ Resolving /\ Earned

-----------------------------------------------------------------------------
(* About records. *)

(* The edges a record asks for are relationships MusicBrainz knows *)
LEMMA WantedIsKnown ==
    ASSUME NEW kind, NEW b \in Batches, NEW i \in DOMAIN b
    PROVE  Wanted(kind, b[i]) \subseteq Facts
<1>1. SUFFICES ASSUME NEW k \in DOMAIN b[i].relations, b[i].relations[k].type \in DOMAIN EdgeType,
                      b[i].relations[k].target # NoTarget
               PROVE  EdgeOf(kind, b[i].id, b[i].relations[k]) \in Facts
    BY DEF Wanted, Supported
<1> QED BY <1>1, ToldFromBothSides DEF EdgeOf, EdgeOfRow, EdgeOfRelation

(* Edges and blind relations depend on nothing but id and relations *)
LEMMA SameRelations ==
    ASSUME NEW kind, NEW r, NEW s, r.id = s.id, r.relations = s.relations
    PROVE  Wanted(kind, r) = Wanted(kind, s) /\ (HasBlindRelation(r) <=> HasBlindRelation(s))
BY DEF Wanted, Supported, HasBlindRelation

(* A label's or a master's record asks for nothing *)
LEMMA OthersWantNothing ==
    ASSUME NEW kind, NEW b \in LabelBatches \cup MasterBatches, NEW i \in DOMAIN b
    PROVE  Wanted(kind, b[i]) = {} /\ b[i].id \notin Artists
BY KindsAssumption DEF Wanted, Supported

LEMMA EarnedIsRelationsDigestEarned == Earned <=> RelationsDigestEarned
BY DEF Earned, RelationsDigestEarned, RelationsDigest, ArtistRecords

-----------------------------------------------------------------------------
(* Preservation. *)

LEMMA InitInv == Init => Inv
<1> SUFFICES ASSUME Init PROVE Inv
    OBVIOUS
<1>1. TypeOK BY DEF Init, TypeOK
<1>2. Carries BY DEF Init, Carries
<1>3. Known BY DEF Init, Known
<1>4. Tracked BY DEF Init, Tracked
<1>5. Resolving BY DEF Init, Resolving, Rows
<1>6. Earned BY NoHashAssumption DEF Init, Earned, ArtistRecords, Batches
<1> QED BY <1>1, <1>2, <1>3, <1>4, <1>5, <1>6 DEF Inv

(* A transaction begins with any batch whose skipped artists have their edges *)
LEMMA StartKeepsInv ==
    ASSUME Inv, NEW x \in Flushes, NEW kind \in {"batch", "single"}, NEW b, NEW rows \in SUBSET Matched(b),
           Start(x, kind, b, rows),
           \A i \in DOMAIN b : Wanted(kind, b[i]) \subseteq Facts,
           \A i \in DOMAIN b : b[i].id \in Artists => b[i] \in ArtistRecords,
           \A i \in Matched(b) \ rows : b[i].id \in Artists => Wanted(kind, b[i]) \subseteq edges
    PROVE  Inv'
<1> USE DEF Inv
<1>0. /\ Matched(b) \subseteq DOMAIN b /\ Changed(b) \subseteq DOMAIN b /\ Rows(b) \subseteq DOMAIN b
      /\ Facts \subseteq Edges
    BY FactsAssumption DEF Matched, Changed, Rows
<1>a. \A r \in UNION {{i} \X Wanted(kind, b[i]) : i \in rows} : r \in rows \X Facts
    BY <1>0
<1>b. \A i \in rows : \A e \in Wanted(kind, b[i]) : <<i, e>> \in UNION {{j} \X Wanted(kind, b[j]) : j \in rows}
    OBVIOUS
<1>1. TypeOK'
  <2>1. /\ DOMAIN batch' = Flushes /\ DOMAIN changed' = Flushes
        /\ DOMAIN due' = Flushes /\ DOMAIN todo' = Flushes /\ DOMAIN missed' = Flushes
      BY DEF TypeOK, Start
  <2>2. ASSUME NEW y \in Flushes
        PROVE  /\ changed'[y] \subseteq DOMAIN batch'[y] /\ due'[y] \subseteq DOMAIN batch'[y]
               /\ todo'[y] \subseteq due'[y] \X Edges
               /\ missed'[y] \subseteq due'[y]
    <3>1. CASE y = x BY <3>1, <1>0, <1>a DEF TypeOK, Start
    <3>2. CASE y # x BY <3>2 DEF TypeOK, Start
    <3> QED BY <3>1, <3>2
  <2>3. path' \in [Flushes -> {"idle", "batch", "single"}] /\ seen' \in [Flushes -> SUBSET Artists] BY DEF TypeOK, Start
  <2> QED BY <2>1, <2>2, <2>3 DEF TypeOK, Start, graphVars
<1>2. Carries' BY DEF Carries, Start, TypeOK
<1>3. Known'
  <2>1. ASSUME NEW y \in Flushes PROVE \A r \in todo'[y] : r[2] \in Facts
      BY <1>a DEF Known, Start, TypeOK
  <2> QED BY <2>1 DEF Known, Start, graphVars
<1>4. Tracked'
  <2> SUFFICES ASSUME NEW y \in Flushes, NEW i \in due'[y] \ missed'[y]
               PROVE  /\ ~HasBlindRelation(batch'[y][i])
                      /\ \A e \in Wanted(path'[y], batch'[y][i]) : e \in made'[y] \/ <<i, e>> \in todo'[y]
      BY DEF Tracked, HasBlindRelation, Wanted, Supported, EdgeOf, EdgeOfRow, EdgeOfRelation
  <2>1. CASE y = x BY <2>1, <1>b DEF Start, TypeOK
  <2>2. CASE y # x BY <2>2 DEF Start, TypeOK, Tracked
  <2> QED BY <2>1, <2>2
<1>5. Resolving'
  <2> SUFFICES ASSUME NEW y \in Flushes
               PROVE  /\ seen'[y] \subseteq nodes'
                      /\ \A i \in Rows(batch'[y]) : batch'[y][i].id \in seen'[y] =>
                          \A e \in Wanted(path'[y], batch'[y][i]) : e[1] \in seen'[y] /\ e[3] \in seen'[y] =>
                              e \in edges' \/ e \in made'[y] \/ <<i, e>> \in todo'[y]
      BY DEF Resolving, Rows, Wanted, Supported, EdgeOf, EdgeOfRow, EdgeOfRelation
  <2>1. CASE y = x
    <3>1. path'[y] = kind /\ seen'[y] = nodes \cap Artists /\ batch'[y] = b
          /\ todo'[y] = UNION {{i} \X Wanted(kind, b[i]) : i \in rows}
          /\ nodes' = nodes /\ edges' = edges
        BY <2>1 DEF Start, TypeOK, graphVars
    <3>2. ASSUME NEW i \in Rows(b), b[i].id \in nodes \cap Artists, NEW e \in Wanted(kind, b[i])
          PROVE  e \in edges \/ <<i, e>> \in todo'[y]
      <4>1. i \in Matched(b) BY <3>2 DEF Matched
      <4>2. CASE i \in rows BY <4>2, <1>b, <3>1, <3>2
      <4>3. CASE i \notin rows BY <4>3, <4>1, <3>2
      <4> QED BY <4>2, <4>3
    <3> QED BY <3>1, <3>2
  <2>2. CASE y # x BY <2>2 DEF Start, TypeOK, Resolving, graphVars
  <2> QED BY <2>1, <2>2
<1>6. Earned' BY DEF Earned, Start, graphVars, HasBlindRelation, Wanted, Supported, EdgeOf, EdgeOfRow, EdgeOfRelation
<1> QED BY <1>1, <1>2, <1>3, <1>4, <1>5, <1>6

(* A statement of a transaction runs: what it cannot merge, it counts as missed *)
LEMMA MergeKeepsInv ==
    ASSUME Inv, NEW x \in Flushes, NEW rows \in SUBSET todo[x], Merge(x, rows)
    PROVE  Inv'
<1> USE DEF Inv
<1> DEFINE ok == {r \in rows : r[2][1] \in nodes /\ r[2][3] \in nodes}
<1>0. /\ todo' = [todo EXCEPT ![x] = @ \ rows]
      /\ made' = [made EXCEPT ![x] = @ \cup {r[2] : r \in ok}]
      /\ missed' = [missed EXCEPT ![x] = @ \cup {r[1] : r \in rows \ ok}]
      /\ UNCHANGED <<graphVars, path, batch, seen, changed, due>>
    BY DEF Merge
<1>a. ASSUME NEW r \in rows PROVE r[1] \in due[x] /\ r[2] \in Edges /\ r[2] \in Facts
    BY <1>a DEF TypeOK, Known
<1>b. /\ todo'[x] = todo[x] \ rows
      /\ made'[x] = made[x] \cup {r[2] : r \in ok}
      /\ missed'[x] = missed[x] \cup {r[1] : r \in rows \ ok}
    BY <1>0 DEF TypeOK
<1>c. ASSUME NEW y \in Flushes, y # x
      PROVE  todo'[y] = todo[y] /\ made'[y] = made[y] /\ missed'[y] = missed[y]
    BY <1>0, <1>c DEF TypeOK
<1> HIDE DEF ok
<1>d. \A r \in rows : r \in ok <=> r[2][1] \in nodes /\ r[2][3] \in nodes
    BY DEF ok
<1>e. ok \subseteq rows BY DEF ok
<1>1. TypeOK'
  <2>1. /\ DOMAIN batch' = Flushes /\ DOMAIN changed' = Flushes
        /\ DOMAIN due' = Flushes /\ DOMAIN todo' = Flushes /\ DOMAIN missed' = Flushes
      BY <1>0 DEF TypeOK
  <2>2. ASSUME NEW y \in Flushes
        PROVE  todo'[y] \subseteq due[y] \X Edges /\ missed'[y] \subseteq due[y]
    <3>1. CASE y = x BY <3>1, <1>a, <1>b, <1>e DEF TypeOK
    <3>2. CASE y # x BY <3>2, <1>c DEF TypeOK
    <3> QED BY <3>1, <3>2
  <2>3. made' \in [Flushes -> SUBSET Edges] BY <1>0, <1>a, <1>e DEF TypeOK
  <2> QED BY <1>0, <2>1, <2>2, <2>3 DEF TypeOK, graphVars
<1>2. Carries' BY <1>0 DEF Carries
<1>3. Known'
  <2>1. ASSUME NEW y \in Flushes PROVE made'[y] \subseteq Facts /\ \A r \in todo'[y] : r[2] \in Facts
    <3>1. CASE y = x BY <3>1, <1>a, <1>b, <1>e DEF Known
    <3>2. CASE y # x BY <3>2, <1>c DEF Known
    <3> QED BY <3>1, <3>2
  <2> QED BY <2>1, <1>0 DEF Known, graphVars
<1>4. Tracked'
  <2> SUFFICES ASSUME NEW y \in Flushes, NEW i \in due[y] \ missed'[y]
               PROVE  /\ ~HasBlindRelation(batch[y][i])
                      /\ \A e \in Wanted(path[y], batch[y][i]) : e \in made'[y] \/ <<i, e>> \in todo'[y]
      BY <1>0 DEF Tracked
  <2>1. CASE y = x
    <3>1. i \in due[x] \ missed[x] BY <2>1, <1>b
    <3>2. ASSUME NEW e \in Wanted(path[x], batch[x][i]), <<i, e>> \in rows PROVE e \in made'[x]
      <4>1. <<i, e>> \in ok BY <2>1, <1>b, <3>2
      <4> QED BY <4>1, <1>b
    <3> QED BY <2>1, <3>1, <3>2, <1>b DEF Tracked
  <2>2. CASE y # x BY <2>2, <1>c DEF Tracked
  <2> QED BY <2>1, <2>2
<1>5. Resolving'
  <2> SUFFICES ASSUME NEW y \in Flushes
               PROVE  \A i \in Rows(batch[y]) : batch[y][i].id \in seen[y] =>
                          \A e \in Wanted(path[y], batch[y][i]) : e[1] \in seen[y] /\ e[3] \in seen[y] =>
                              e \in edges \/ e \in made'[y] \/ <<i, e>> \in todo'[y]
      BY <1>0 DEF Resolving, graphVars
  <2>1. CASE y = x
    <3>1. ASSUME NEW i, NEW e, <<i, e>> \in rows, e[1] \in seen[x], e[3] \in seen[x] PROVE e \in made'[x]
      <4>1. <<i, e>> \in ok BY <3>1, <1>d DEF Resolving
      <4> QED BY <4>1, <1>b
    <3> QED BY <2>1, <3>1, <1>b DEF Resolving
  <2>2. CASE y # x BY <2>2, <1>c DEF Resolving
  <2> QED BY <2>1, <2>2
<1>6. Earned' BY <1>0 DEF Earned, graphVars, HasBlindRelation, Wanted, Supported, EdgeOf, EdgeOfRow, EdgeOfRelation
<1> QED BY <1>1, <1>2, <1>3, <1>4, <1>5, <1>6

(* A transaction ends: the graph only gained known edges, and its stored digests are earned *)
LEMMA LeaveKeepsInv ==
    ASSUME Inv, NEW x \in Flushes, Leave(x), nodes' = nodes, Earned',
           DOMAIN mb_hash' = Entities, DOMAIN relations_hash' = Artists,
           edges \subseteq edges', edges' \subseteq Facts
    PROVE  Inv'
<1> USE DEF Inv
<1>a. ASSUME NEW y \in Flushes, y # x
      PROVE  /\ path'[y] = path[y] /\ batch'[y] = batch[y] /\ seen'[y] = seen[y]
             /\ changed'[y] = changed[y] /\ due'[y] = due[y]
             /\ todo'[y] = todo[y] /\ made'[y] = made[y] /\ missed'[y] = missed[y]
    BY <1>a DEF Leave, TypeOK
<1>b. /\ batch'[x] = <<>> /\ seen'[x] = {} /\ changed'[x] = {} /\ due'[x] = {}
      /\ todo'[x] = {} /\ made'[x] = {} /\ missed'[x] = {}
    BY DEF Leave, TypeOK
<1>1. TypeOK'
  <2>1. /\ DOMAIN batch' = Flushes /\ DOMAIN changed' = Flushes
        /\ DOMAIN due' = Flushes /\ DOMAIN todo' = Flushes /\ DOMAIN missed' = Flushes
      BY DEF TypeOK, Leave
  <2>2. ASSUME NEW y \in Flushes
        PROVE  /\ changed'[y] \subseteq DOMAIN batch'[y] /\ due'[y] \subseteq DOMAIN batch'[y]
               /\ todo'[y] \subseteq due'[y] \X Edges
               /\ missed'[y] \subseteq due'[y]
    <3>1. CASE y = x BY <3>1, <1>b
    <3>2. CASE y # x BY <3>2, <1>a DEF TypeOK
    <3> QED BY <3>1, <3>2
  <2>3. /\ path' \in [Flushes -> {"idle", "batch", "single"}] /\ seen' \in [Flushes -> SUBSET Artists]
        /\ made' \in [Flushes -> SUBSET Edges]
      BY DEF TypeOK, Leave
  <2> QED BY <2>1, <2>2, <2>3, FactsAssumption DEF TypeOK
<1>2. Carries'
  <2> SUFFICES ASSUME NEW y \in Flushes
               PROVE  \A i \in DOMAIN batch'[y] : batch'[y][i].id \in Artists => batch'[y][i] \in ArtistRecords
      BY DEF Carries
  <2> QED BY <1>a, <1>b DEF Carries
<1>3. Known'
  <2>1. ASSUME NEW y \in Flushes PROVE made'[y] \subseteq Facts /\ \A r \in todo'[y] : r[2] \in Facts
      BY <1>a, <1>b DEF Known
  <2> QED BY <2>1 DEF Known
<1>4. Tracked'
  <2> SUFFICES ASSUME NEW y \in Flushes, NEW i \in due'[y] \ missed'[y]
               PROVE  /\ ~HasBlindRelation(batch'[y][i])
                      /\ \A e \in Wanted(path'[y], batch'[y][i]) : e \in made'[y] \/ <<i, e>> \in todo'[y]
      BY DEF Tracked, HasBlindRelation, Wanted, Supported, EdgeOf, EdgeOfRow, EdgeOfRelation
  <2>1. y # x BY <1>b
  <2> QED BY <2>1, <1>a DEF Tracked
<1>5. Resolving'
  <2> SUFFICES ASSUME NEW y \in Flushes
               PROVE  /\ seen'[y] \subseteq nodes
                      /\ \A i \in Rows(batch'[y]) : batch'[y][i].id \in seen'[y] =>
                          \A e \in Wanted(path'[y], batch'[y][i]) : e[1] \in seen'[y] /\ e[3] \in seen'[y] =>
                              e \in edges' \/ e \in made'[y] \/ <<i, e>> \in todo'[y]
      BY DEF Resolving, Rows, Wanted, Supported, EdgeOf, EdgeOfRow, EdgeOfRelation
  <2>1. CASE y = x BY <2>1, <1>b
  <2>2. CASE y # x BY <2>2, <1>a DEF Resolving
  <2> QED BY <2>1, <2>2
<1> QED BY <1>1, <1>2, <1>3, <1>4, <1>5

(* What a transaction merged covers every row whose digest it stores *)
LEMMA CommitKeepsInv ==
    ASSUME Inv, NEW x \in Flushes, Commit(x)
    PROVE  Inv'
<1> USE DEF Inv
<1>1. edges \subseteq edges' /\ edges' \subseteq Facts BY DEF Commit, Known
<1>2. Earned'
  <2> SUFFICES ASSUME NEW r \in ArtistRecords, r.id \in Artists, relations_hash'[r.id] = r.relations
               PROVE  Wanted("batch", r) \subseteq edges' /\ ~HasBlindRelation(r)
      BY DEF Earned, HasBlindRelation, Wanted, Supported, EdgeOf, EdgeOfRow, EdgeOfRelation
  <2>1. CASE \E i \in Done(x) : batch[x][i].id = r.id
    <3>1. PICK i \in Done(x) : batch[x][i].id = r.id /\ RowOf(x, r.id, Done(x)) = batch[x][i]
        BY <2>1 DEF RowOf
    <3>2. batch[x][i].relations = r.relations BY <2>1, <3>1 DEF Commit, RelationsDigest
    <3>3. Wanted("batch", r) = Wanted("batch", batch[x][i]) /\ (HasBlindRelation(r) <=> HasBlindRelation(batch[x][i]))
        BY <3>1, <3>2, SameRelations
    <3>4. path[x] = "batch" /\ i \in due[x] \ missed[x] BY <3>1 DEF Done
    <3>5. ~HasBlindRelation(batch[x][i]) /\ Wanted("batch", batch[x][i]) \subseteq made[x]
        BY <3>4 DEF Tracked, Commit
    <3> QED BY <3>3, <3>5 DEF Commit
  <2>2. CASE ~\E i \in Done(x) : batch[x][i].id = r.id
    <3>1. relations_hash[r.id] = r.relations BY <2>2 DEF Commit
    <3> QED BY <3>1, <1>1 DEF Earned
  <2> QED BY <2>1, <2>2
<1>3. Leave(x) /\ nodes' = nodes /\ DOMAIN mb_hash' = Entities /\ DOMAIN relations_hash' = Artists
    BY DEF Commit
<1> QED BY <1>1, <1>2, <1>3, LeaveKeepsInv

LEMMA AbortKeepsInv ==
    ASSUME Inv, NEW x \in Flushes, Abort(x)
    PROVE  Inv'
<1> USE DEF Inv
<1>1. Leave(x) /\ UNCHANGED graphVars BY DEF Abort
<1>2. Earned' BY <1>1 DEF Earned, graphVars, HasBlindRelation, Wanted, Supported, EdgeOf, EdgeOfRow, EdgeOfRelation
<1> QED BY <1>1, <1>2, LeaveKeepsInv DEF graphVars, TypeOK, Known

LEMMA AddNodeKeepsInv ==
    ASSUME Inv, NEW n \in Entities, AddNode(n)
    PROVE  Inv'
<1> USE DEF Inv, AddNode, flushVars
<1>1. TypeOK' BY DEF TypeOK
<1>2. Carries' BY DEF Carries
<1>3. Known' BY DEF Known
<1>4. Tracked' BY DEF Tracked, HasBlindRelation, Wanted, Supported, EdgeOf, EdgeOfRow, EdgeOfRelation
<1>5. Resolving' BY DEF Resolving, Rows, Wanted, Supported, EdgeOf, EdgeOfRow, EdgeOfRelation
<1>6. Earned' BY DEF Earned, HasBlindRelation, Wanted, Supported, EdgeOf, EdgeOfRow, EdgeOfRelation
<1> QED BY <1>1, <1>2, <1>3, <1>4, <1>5, <1>6

-----------------------------------------------------------------------------
(* The artists skipped by the gate have their edges: their digest was earned *)
LEMMA EnrichArtistsBatchKeepsInv ==
    ASSUME Inv, NEW x \in Flushes, NEW b \in ArtistBatches, EnrichArtistsBatch(x, b)
    PROVE  Inv'
<1>1. Start(x, "batch", b, Due(b)) /\ Due(b) \in SUBSET Matched(b) BY DEF EnrichArtistsBatch, Due
<1>2. \A i \in DOMAIN b : Wanted("batch", b[i]) \subseteq Facts /\ b[i] \in ArtistRecords
    BY WantedIsKnown DEF Batches, ArtistRecords
<1>3. ASSUME NEW i \in Matched(b) \ Due(b), b[i].id \in Artists PROVE Wanted("batch", b[i]) \subseteq edges
  <2>1. i \in DOMAIN b /\ relations_hash[b[i].id] = b[i].relations
      BY <1>3 DEF Matched, Due, Rows, RelationsDigest
  <2> QED BY <1>2, <1>3, <2>1 DEF Inv, Earned
<1> QED BY <1>1, <1>2, <1>3, StartKeepsInv

(* A record on its own skips none of its relations *)
LEMMA EnrichArtistKeepsInv ==
    ASSUME Inv, NEW x \in Flushes, NEW b \in ArtistBatches, NEW i \in DOMAIN b, EnrichArtist(x, b[i])
    PROVE  Inv'
<1> DEFINE one == <<b[i]>>
<1>1. Start(x, "single", one, Matched(one)) BY DEF EnrichArtist
<1>2. DOMAIN one = {1} /\ one[1] = b[i] OBVIOUS
<1>3. Wanted("single", b[i]) \subseteq Facts /\ b[i] \in ArtistRecords
    BY WantedIsKnown DEF Batches, ArtistRecords
<1> HIDE DEF one
<1> QED BY <1>1, <1>2, <1>3, StartKeepsInv

(* Labels and masters have no relations to project *)
LEMMA OthersKeepInv ==
    ASSUME Inv, NEW x \in Flushes, NEW b \in LabelBatches \cup MasterBatches,
           \/ Start(x, "batch", b, {})
           \/ \E i \in DOMAIN b : Start(x, "single", <<b[i]>>, {})
    PROVE  Inv'
<1>1. \A i \in DOMAIN b : Wanted("batch", b[i]) = {} /\ Wanted("single", b[i]) = {} /\ b[i].id \notin Artists
    BY OthersWantNothing
<1>2. CASE Start(x, "batch", b, {}) BY <1>1, <1>2, StartKeepsInv DEF Matched, Rows
<1>3. CASE \E i \in DOMAIN b : Start(x, "single", <<b[i]>>, {})
  <2> PICK i \in DOMAIN b : Start(x, "single", <<b[i]>>, {}) BY <1>3
  <2> DEFINE one == <<b[i]>>
  <2>1. Start(x, "single", one, {}) OBVIOUS
  <2>2. DOMAIN one = {1} /\ one[1] = b[i] OBVIOUS
  <2> HIDE DEF one
  <2> QED BY <1>1, <2>1, <2>2, StartKeepsInv DEF Matched, Rows
<1> QED BY <1>2, <1>3

(* Inv is inductive *)
LEMMA NextKeepsInv == Inv /\ [Next]_vars => Inv'
<1> SUFFICES ASSUME Inv, [Next]_vars PROVE Inv'
    OBVIOUS
<1>1. ASSUME NEW x \in Flushes, NEW b \in ArtistBatches,
             EnrichArtistsBatch(x, b) \/ \E i \in DOMAIN b : EnrichArtist(x, b[i])
      PROVE  Inv'
    BY <1>1, EnrichArtistsBatchKeepsInv, EnrichArtistKeepsInv
<1>2. ASSUME NEW x \in Flushes, NEW b \in LabelBatches,
             EnrichLabelsBatch(x, b) \/ \E i \in DOMAIN b : EnrichLabel(x, b[i])
      PROVE  Inv'
    BY <1>2, OthersKeepInv DEF EnrichLabelsBatch, EnrichLabel
<1>3. ASSUME NEW x \in Flushes, NEW b \in MasterBatches,
             EnrichReleaseGroupsBatch(x, b) \/ \E i \in DOMAIN b : EnrichReleaseGroup(x, b[i])
      PROVE  Inv'
    BY <1>3, OthersKeepInv DEF EnrichReleaseGroupsBatch, EnrichReleaseGroup
<1>4. ASSUME NEW x \in Flushes, MergeType(x) \/ MergeRelation(x) PROVE Inv'
  <2>1. CASE MergeType(x)
    <3>1. PICK r \in todo[x] : Merge(x, {s \in todo[x] : s[2][2] = r[2][2]}) BY <2>1 DEF MergeType
    <3> QED BY <3>1, MergeKeepsInv
  <2>2. CASE MergeRelation(x)
    <3>1. PICK r \in todo[x] : Merge(x, {r}) BY <2>2 DEF MergeRelation
    <3> QED BY <3>1, MergeKeepsInv
  <2> QED BY <1>4, <2>1, <2>2
<1>5. ASSUME NEW x \in Flushes, Commit(x) PROVE Inv' BY <1>5, CommitKeepsInv
<1>6. ASSUME NEW x \in Flushes, Abort(x) PROVE Inv' BY <1>6, AbortKeepsInv
<1>7. ASSUME NEW n \in Entities, AddNode(n) PROVE Inv' BY <1>7, AddNodeKeepsInv
<1>8. CASE UNCHANGED vars
  <2> USE <1>8 DEF Inv, vars, graphVars, flushVars
  <2>1. TypeOK' BY DEF TypeOK
  <2>2. Carries' BY DEF Carries
  <2>3. Known' BY DEF Known
  <2>4. Tracked' BY DEF Tracked, HasBlindRelation, Wanted, Supported, EdgeOf, EdgeOfRow, EdgeOfRelation
  <2>5. Resolving' BY DEF Resolving, Rows, Wanted, Supported, EdgeOf, EdgeOfRow, EdgeOfRelation
  <2>6. Earned' BY DEF Earned, HasBlindRelation, Wanted, Supported, EdgeOf, EdgeOfRow, EdgeOfRelation
  <2> QED BY <2>1, <2>2, <2>3, <2>4, <2>5, <2>6
<1> QED BY <1>1, <1>2, <1>3, <1>4, <1>5, <1>6, <1>7, <1>8 DEF Next

LEMMA SpecInv == Spec => []Inv
BY InitInv, NextKeepsInv, PTL DEF Spec

-----------------------------------------------------------------------------
(* Theorems. *)

(***************************************************************************)
(* The digests, edges and transactions of the projections keep their       *)
(* types: no statement comes to an edge its batch does not ask for.        *)
(***************************************************************************)
THEOREM TypeCorrect == Spec => []TypeOK
<1>1. Inv => TypeOK BY DEF Inv
<1> QED BY <1>1, SpecInv, PTL

(***************************************************************************)
(* Whatever batches and single records enrich_artists_batch and            *)
(* enrich_artist interleave, a relations digest in the graph means that    *)
(* all edges of its record are, too.                                       *)
(***************************************************************************)
THEOREM DigestsAreEarned == Spec => []RelationsDigestEarned
<1>1. Inv => RelationsDigestEarned BY EarnedIsRelationsDigestEarned DEF Inv
<1> QED BY <1>1, SpecInv, PTL

(***************************************************************************)
(* No edge create_relationship_edges or create_relationship_edges_batch    *)
(* writes runs the wrong way, whichever end tells the relationship.        *)
(***************************************************************************)
THEOREM OnlyFacts == Spec => []EdgesAreFacts
<1>1. Inv => EdgesAreFacts BY DEF Inv, Known, EdgesAreFacts
<1> QED BY <1>1, SpecInv, PTL

(***************************************************************************)
(* A committed transaction leaves an edge for every relation of its        *)
(* artists whose ends it could see, gated or not (enrich_artists_batch,    *)
(* enrich_artist).                                                         *)
(***************************************************************************)
THEOREM ReplaysResolve == Spec => ReplayResolves
<1>1. ASSUME Inv, NEW x \in Flushes, Commit(x), NEW i \in Rows(batch[x]), batch[x][i].id \in seen[x],
             NEW e \in Wanted(path[x], batch[x][i]), e[1] \in seen[x], e[3] \in seen[x]
      PROVE  e \in edges'
    BY <1>1 DEF Inv, Resolving, Commit
<1>2. Inv => [\A x \in Flushes : Commit(x) =>
           \A i \in Rows(batch[x]) : batch[x][i].id \in seen[x] =>
               \A e \in Wanted(path[x], batch[x][i]) : e[1] \in seen[x] /\ e[3] \in seen[x] => e \in edges']_vars
    BY <1>1
<1> QED BY <1>2, SpecInv, PTL DEF ReplayResolves
=============================================================================
