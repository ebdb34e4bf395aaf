------------------------- MODULE ReleaseBatchProofs -------------------------
(***************************************************************************)
(* Theorems about what ReleaseMedia writes on a release: the quantities of *)
(* its edges, and the one row a batch keeps of several records.            *)
(***************************************************************************)
EXTENDS ReleaseMediaProofs, FoldLemmas

-----------------------------------------------------------------------------
(* The quantity on an edge. *)

Picked(s) == CHOOSE x \in s : TRUE

(* The fold in EdgeRows over the positions S of a medium *)
AddsUp(it, items, S) ==
    it = [s \in SUBSET S |-> IF s = {} THEN 0 ELSE Quantity(items[Picked(s)]) + it[s \ {Picked(s)}]]

(* What EdgeRows writes for the positions S *)
QuantityAt(items, S) == MapThenSumSet(LAMBDA i : Quantity(items[i]), S)

(* media_edge_rows adds up with a recursive function on the positions *)
LEMMA QuantityIsSum ==
    ASSUME NEW items, NEW S
    PROVE  QuantityAt(items, S) = (CHOOSE it : AddsUp(it, items, S))[S]
BY DEF QuantityAt, MapThenSumSet, MapThenFoldSet, AddsUp, Picked

(* The quantity of one item counts at least once *)
LEMMA QuantityType ==
    ASSUME NEW item, item.qty \in Int
    PROVE  Quantity(item) \in Nat \ {0}
BY DEF Quantity

(* The quantities of the items of one medium add up to at least one *)
LEMMA SumIsPositive ==
    ASSUME NEW S, IsFiniteSet(S), S # {}, NEW items, \A i \in S : Quantity(items[i]) \in Nat \ {0}
    PROVE  QuantityAt(items, S) \in Nat \ {0}
<1> DEFINE c == [s \in SUBSET S |-> Picked(s)]
           g == [p \in S \X Nat |-> Quantity(items[p[1]]) + p[2]]
           it == CHOOSE it : AddsUp(it, items, S)
<1>1. \A s \in SUBSET S : c[s] = Picked(s) /\ (s # {} => Picked(s) \in s)
  BY DEF Picked
<1>2. Chooses(c, S)
  BY <1>1 DEF Chooses
<1>3. g \in [S \X Nat -> Nat] /\ \A i \in S, n \in Nat : g[<<i, n>>] = Quantity(items[i]) + n
  <2>1. \A p \in S \X Nat : Quantity(items[p[1]]) + p[2] \in Nat
    <3> TAKE p \in S \X Nat
    <3>1. Quantity(items[p[1]]) \in Nat /\ p[2] \in Nat
      OBVIOUS
    <3> QED BY <3>1
  <2> QED BY <2>1
<1> HIDE DEF c, g
<1>4. PICK f : Folds(f, S, c, g, 0, Nat)
  BY <1>2, <1>3, FoldExists
<1>5. \A s \in SUBSET S : s # {} => f[s] = Quantity(items[Picked(s)]) + f[s \ {Picked(s)}]
  <2> SUFFICES ASSUME NEW s \in SUBSET S, s # {}
               PROVE  f[s] = Quantity(items[Picked(s)]) + f[s \ {Picked(s)}]
    OBVIOUS
  <2>1. f[s] = g[<<c[s], f[s \ {c[s]}]>>] /\ s \ {c[s]} \in SUBSET S /\ f[s \ {c[s]}] \in Nat
    BY <1>4 DEF Folds
  <2>2. c[s] = Picked(s) /\ Picked(s) \in S
    BY <1>1
  <2> QED BY <1>3, <2>1, <2>2
<1>6. AddsUp(f, items, S)
  <2>1. f = [s \in SUBSET S |-> f[s]] /\ f[{}] = 0
    BY <1>4 DEF Folds
  <2>2. \A s \in SUBSET S : f[s] = IF s = {} THEN 0 ELSE Quantity(items[Picked(s)]) + f[s \ {Picked(s)}]
    BY <1>5, <2>1
  <2> QED BY <2>1, <2>2 DEF AddsUp
<1>7. AddsUp(it, items, S)
  BY <1>6
<1> HIDE DEF it
<1>8. RecurAlike(f, it, S)
  <2>1. f[{}] = it[{}]
    BY <1>6, <1>7 DEF AddsUp
  <2>2. ASSUME NEW s \in SUBSET S, s # {}
        PROVE  \E x \in s : f[s \ {x}] = it[s \ {x}] => f[s] = it[s]
    <3>1. Picked(s) \in s
      BY <1>1, <2>2
    <3>2. /\ f[s] = Quantity(items[Picked(s)]) + f[s \ {Picked(s)}]
          /\ it[s] = Quantity(items[Picked(s)]) + it[s \ {Picked(s)}]
      BY <1>6, <1>7, <2>2 DEF AddsUp
    <3> QED BY <3>1, <3>2
  <2> QED BY <2>1, <2>2 DEF RecurAlike
<1>9. f[S] = it[S]
  BY <1>8, SameRecursion DEF EqualOnSubsets
<1>10. f[S] \in Nat \ {0}
  <2>1. f[S] = Quantity(items[Picked(S)]) + f[S \ {Picked(S)}] /\ Picked(S) \in S
    BY <1>1, <1>5
  <2>2. f[S \ {Picked(S)}] \in Nat
    BY <1>4 DEF Folds
  <2>3. Quantity(items[Picked(S)]) \in Nat \ {0}
    BY <2>1
  <2> QED BY <2>1, <2>2, <2>3
<1> QED BY <1>9, <1>10, QuantityIsSum DEF it

(* media_edge_rows: every medium of a block has a positive quantity *)
LEMMA EdgeRowsType ==
    ASSUME NEW items \in Seq([medium : Int, qty : Int])
    PROVE  /\ MediumIds(items) \subseteq Media
           /\ DOMAIN EdgeRows(items) = MediumIds(items)
           /\ EdgeRows(items) \in [MediumIds(items) -> Nat \ {0}]
<1>1. Len(items) \in Nat /\ DOMAIN items = 1 .. Len(items)
  OBVIOUS
<1>2. \A i \in DOMAIN items : items[i] \in [medium : Int, qty : Int]
  <2> DEFINE Item == [medium : Int, qty : Int]
  <2>1. items \in Seq(Item)
    OBVIOUS
  <2> HIDE DEF Item
  <2>2. \A i \in DOMAIN items : items[i] \in Item
    BY <2>1
  <2> QED BY <2>2 DEF Item
<1>3. ASSUME NEW m \in MediumIds(items)
      PROVE  QuantityAt(items, {i \in DOMAIN items : items[i].medium = m}) \in Nat \ {0}
  <2> DEFINE S == {i \in DOMAIN items : items[i].medium = m}
  <2>1. S # {} /\ S \in SUBSET (1 .. Len(items))
    BY <1>1 DEF MediumIds
  <2>2. \A i \in S : Quantity(items[i]) \in Nat \ {0}
    BY <1>2, QuantityType
  <2>3. IsFiniteSet(1 .. Len(items))
    BY <1>1, FS_Interval
  <2> HIDE DEF S
  <2>4. IsFiniteSet(S)
    BY <2>1, <2>3, FS_Subset
  <2>5. QuantityAt(items, S) \in Nat \ {0}
    BY <2>1, <2>2, <2>4, SumIsPositive
  <2> QED BY <2>5 DEF S
<1>4. MediumIds(items) \subseteq Media
  BY DEF MediumIds
<1>5. EdgeRows(items) =
          [m \in MediumIds(items) |-> QuantityAt(items, {i \in DOMAIN items : items[i].medium = m})]
  BY DEF EdgeRows, QuantityAt
<1> QED BY <1>3, <1>4, <1>5

-----------------------------------------------------------------------------
(* Type correctness. *)

NodeType(node) ==
    /\ node.families \subseteq Families
    /\ node.medium_count \in Nat
    /\ DOMAIN node.issued \subseteq Media
    /\ node.issued \in [DOMAIN node.issued -> Nat \ {0}]

TypedInv == MediaInv /\ media \subseteq Media /\ \A r \in Releases : NodeType(release[r])

(* Writing a record of a batch keeps the type of the node *)
LEMMA WrittenType ==
    ASSUME NEW node, Node(node), NodeType(node), NEW b \in Batches, NEW i \in DOMAIN b
    PROVE  NodeType(Written(node, b[i]))
<1>1. CASE b[i].items = NoBlock
  <2>1. Written(node, b[i]) = [mb_hash |-> Digest(b[i]), families |-> node.families,
                               medium_count |-> node.medium_count, issued |-> node.issued]
    BY <1>1 DEF Written, Node
  <2> QED BY <2>1 DEF NodeType
<1>2. CASE b[i].items # NoBlock
  <2> DEFINE items == b[i].items
  <2>1. items \in Seq([medium : Int, qty : Int])
    BY <1>2, BatchesAssumption
  <2>2. Written(node, b[i]) = [mb_hash |-> Digest(b[i]), families |-> FamiliesOf(items),
                               medium_count |-> Len(items), issued |-> EdgeRows(items)]
    BY <1>2 DEF Written
  <2> HIDE DEF items
  <2>3. Len(items) \in Nat
    BY <2>1
  <2>4. FamiliesOf(items) \subseteq Families
    BY DEF FamiliesOf, Families, MediumIds
  <2>5. /\ DOMAIN EdgeRows(items) \subseteq Media
        /\ EdgeRows(items) \in [DOMAIN EdgeRows(items) -> Nat \ {0}]
    BY <2>1, EdgeRowsType
  <2> QED BY <2>2, <2>3, <2>4, <2>5 DEF NodeType
<1> QED BY <1>1, <1>2

(* Only a commit and the Discogs enricher add media, all of them canonical *)
LEMMA StepTyped ==
    ASSUME TypedInv, [Next]_vars
    PROVE  media' \subseteq Media /\ \A r \in Releases : NodeType(release'[r])
<1>1. TypeInv
  BY DEF TypedInv, MediaInv, LockInv
<1>2. CASE UNCHANGED <<release, media>>
  BY <1>2 DEF TypedInv
<1>3. ASSUME NEW e \in DiscogsEdges, UNCHANGED release, media' = media \cup {e[2]}
      PROVE  media' \subseteq Media /\ \A r \in Releases : NodeType(release'[r])
  <2>1. e[2] \in Media
    BY DiscogsAssumption
  <2> QED BY <1>3, <2>1 DEF TypedInv
<1>4. ASSUME NEW x \in Flushes, Commit(x)
      PROVE  media' \subseteq Media /\ \A r \in Releases : NodeType(release'[r])
  <2>1. media' \subseteq Media
    BY <1>1, <1>4, MediaOfFlush DEF Commit, TypedInv
  <2>2. ASSUME NEW r \in Releases PROVE NodeType(release'[r])
    <3>1. Node(release[r]) /\ NodeType(release[r])
      BY <1>1 DEF TypeInv, TypedInv
    <3>2. ASSUME NEW i \in changed[x] PROVE batch[x] \in Batches /\ i \in DOMAIN batch[x]
      <4>1. batch[x] \in Batches \cup {<<>>} /\ i \in Rows(batch[x])
        BY <1>1 DEF TypeInv
      <4> QED BY <4>1 DEF Rows
    <3> QED BY <1>1, <1>4, <3>1, <3>2, CommittedRelease, WrittenType
  <2> QED BY <2>1, <2>2
<1>5. \/ UNCHANGED <<release, media>>
      \/ \E e \in DiscogsEdges : UNCHANGED release /\ media' = media \cup {e[2]}
      \/ \E x \in Flushes : Commit(x)
  BY DEF Next, vars, graphVars, flushVars, Begin, Acquire, LockFamilies, LockMedia, Sweep, Abort,
         AddRelease, Attach, Detach
<1> QED BY <1>2, <1>3, <1>4, <1>5

(***************************************************************************)
(* Whatever batches hold, every edge of a release carries a quantity of at *)
(* least one to a canonical medium (media_edge_rows), and the flushes keep *)
(* their types.                                                            *)
(***************************************************************************)
THEOREM ReleaseTypeCorrect == Spec => []TypeOK
<1>1. Init => TypedInv
  <2> SUFFICES ASSUME Init PROVE TypedInv
    OBVIOUS
  <2> DEFINE empty == [mb_hash |-> NoHash, families |-> {}, medium_count |-> 0, issued |-> <<>>]
  <2>1. NodeType(empty)
    BY DEF NodeType
  <2>2. (\A r \in Releases : release[r] = empty) /\ media = {}
    BY DEF Init
  <2> HIDE DEF empty
  <2> QED BY <2>1, <2>2, InitMedia DEF TypedInv
<1>2. TypedInv /\ [Next]_vars => TypedInv'
  <2>1. TypedInv /\ [Next]_vars => MediaInv'
    BY StepLocks, StepPruned, StepDangling DEF TypedInv, MediaInv
  <2> QED BY <2>1, StepTyped DEF TypedInv, NodeType
<1>3. TypedInv => TypeOK
  <2> SUFFICES ASSUME TypedInv PROVE TypeOK
    OBVIOUS
  <2>1. \A x \in Flushes : changed[x] \subseteq DOMAIN batch[x]
    BY DEF TypedInv, MediaInv, LockInv, TypeInv, Rows
  <2> QED BY <2>1 DEF TypedInv, MediaInv, LockInv, TypeInv, TypeOK, NodeType
<1> QED BY <1>1, <1>2, <1>3, PTL DEF Spec

-----------------------------------------------------------------------------
(* One row for several records. *)

(* A node that already carries the digest of a record carries what the record writes *)
LEMMA RewriteIsIdle ==
    ASSUME NEW node, Node(node), Truthful(node), NEW b \in Batches, NEW i \in DOMAIN b, ~Changed(node, b[i])
    PROVE  Written(node, b[i]) = node
<1>1. node.mb_hash = Digest(b[i]) /\ Digest(b[i]) # NoHash /\ Digest(b[i])[2] = MediaDigest(b[i].items)
  BY DigestAssumption DEF Changed, Digest
<1>2. CASE b[i].items = NoBlock
  BY <1>1, <1>2 DEF Written, Node
<1>3. CASE b[i].items # NoBlock
  <2> DEFINE items == b[i].items
  <2>1. /\ Written(node, b[i]) = [mb_hash |-> Digest(b[i]), families |-> FamiliesOf(items),
                                  medium_count |-> Len(items), issued |-> EdgeRows(items)]
        /\ MediaDigest(items) = <<FamiliesOf(items), Len(items), EdgeRows(items)>>
        /\ MediaDigest(items) # NoBlock
    BY <1>3, DigestAssumption DEF Written, MediaDigest
  <2> HIDE DEF items
  <2>2. MediaDigest(items) = <<node.families, node.medium_count, node.issued>>
    BY <1>1, <2>1 DEF Truthful, items
  <2> QED BY <1>1, <2>1, <2>2 DEF Node
<1> QED BY <1>2, <1>3

(* What enrich_release leaves of a node of r after one record *)
Enriched(r, node, rec) == IF rec.release = r /\ Changed(node, rec) THEN Written(node, rec) ELSE node

(* The fold in Sequentially, over the positions of the batch *)
OneByOne(it, r, b) ==
    it = [s \in SUBSET DOMAIN b |-> IF s = {} THEN release[r] ELSE Enriched(r, it[s \ {Max(s)}], b[Max(s)])]

(* Sequentially is a recursive function on the positions *)
LEMMA SequentiallyIsFold ==
    ASSUME NEW r, NEW b
    PROVE  Sequentially(r, b) = (CHOOSE it : OneByOne(it, r, b))[DOMAIN b]
BY DEF Sequentially, FoldLeft, MapThenFoldSet, OneByOne, Enriched

(* States that repeat from j on end as they were at j *)
LEMMA Stays ==
    ASSUME NEW n \in Nat, NEW j \in 0 .. n, NEW p, \A k \in j + 1 .. n : p[k] = p[k - 1]
    PROVE  p[n] = p[j]
<1> DEFINE Q == {k \in 0 .. n : p[k] = p[j]}
<1>1. Q \in SUBSET (0 .. n) /\ j \in Q
  OBVIOUS
<1>2. IsFiniteSet(Q) /\ Q \subseteq Int
  <2>1. IsFiniteSet(0 .. n)
    BY FS_Interval
  <2>2. Q \subseteq Int
    OBVIOUS
  <2> HIDE DEF Q
  <2>3. IsFiniteSet(Q)
    BY <1>1, <2>1, FS_Subset
  <2> QED BY <2>2, <2>3
<1>3. PICK k \in Q : \A y \in Q : y <= k
  <2> HIDE DEF Q
  <2> QED BY <1>1, <1>2, Greatest
<1>4. k \in Int /\ j <= k /\ k <= n /\ p[k] = p[j]
  BY <1>1, <1>3
<1>5. CASE k = n
  BY <1>4, <1>5
<1>6. CASE k < n
  <2>1. k + 1 \in j + 1 .. n /\ k + 1 - 1 = k
    BY <1>4, <1>6
  <2>2. p[k + 1] = p[k]
    BY <2>1
  <2>3. k + 1 \in Q
    BY <1>4, <1>6, <2>2
  <2>4. k + 1 <= k
    BY <1>3, <2>3
  <2> QED BY <1>4, <2>4
<1> QED BY <1>4, <1>5, <1>6

(* What the node of r may carry while the records of b are applied to it *)
Carried(r, b) ==
    {v \in [mb_hash : {release[r].mb_hash} \cup {Digest(b[k]) : k \in DOMAIN b},
            families : {release[r].families} \cup {FamiliesOf(b[k].items) : k \in DOMAIN b},
            medium_count : {release[r].medium_count} \cup {Len(b[k].items) : k \in DOMAIN b},
            issued : {release[r].issued} \cup {EdgeRows(b[k].items) : k \in DOMAIN b}] : Truthful(v)}

(* The nodes that b may lead to are truthful, and a record leads from one to another *)
LEMMA CarriedIsClosed ==
    ASSUME NodesTruthful, NEW r \in Releases, NEW b
    PROVE  /\ release[r] \in Carried(r, b)
           /\ \A v \in Carried(r, b) : Node(v) /\ Truthful(v)
           /\ \A v \in Carried(r, b), k \in DOMAIN b : Enriched(r, v, b[k]) \in Carried(r, b)
<1> DEFINE H == {release[r].mb_hash} \cup {Digest(b[k]) : k \in DOMAIN b}
           F == {release[r].families} \cup {FamiliesOf(b[k].items) : k \in DOMAIN b}
           C == {release[r].medium_count} \cup {Len(b[k].items) : k \in DOMAIN b}
           E == {release[r].issued} \cup {EdgeRows(b[k].items) : k \in DOMAIN b}
           T == [mb_hash : H, families : F, medium_count : C, issued : E]
<1>1. Carried(r, b) = {v \in T : Truthful(v)}
  BY DEF Carried
<1>2. /\ release[r].mb_hash \in H /\ release[r].families \in F
      /\ release[r].medium_count \in C /\ release[r].issued \in E
      /\ \A k \in DOMAIN b : /\ Digest(b[k]) \in H /\ FamiliesOf(b[k].items) \in F
                             /\ Len(b[k].items) \in C /\ EdgeRows(b[k].items) \in E
  OBVIOUS
<1> HIDE DEF H, F, C, E
<1>3. release[r] \in Carried(r, b)
  <2>1. Node(release[r]) /\ Truthful(release[r])
    BY DEF NodesTruthful
  <2> DEFINE n == [mb_hash |-> release[r].mb_hash, families |-> release[r].families,
                   medium_count |-> release[r].medium_count, issued |-> release[r].issued]
  <2>2. n \in T /\ release[r] = n
    BY <1>2, <2>1 DEF Node
  <2> HIDE DEF n, T
  <2> QED BY <1>1, <2>1, <2>2
<1>4. ASSUME NEW v \in Carried(r, b) PROVE Node(v) /\ Truthful(v) /\ v \in T
  BY <1>1 DEF Node
<1>5. ASSUME NEW v \in Carried(r, b), NEW k \in DOMAIN b PROVE Enriched(r, v, b[k]) \in Carried(r, b)
  <2>1. /\ v.mb_hash \in H /\ v.families \in F /\ v.medium_count \in C /\ v.issued \in E
    BY <1>4
  <2>2. Node(v) /\ Truthful(Written(v, b[k]))
    BY <1>4, WrittenTruthful
  <2>3. CASE b[k].items = NoBlock
    <3>1. Written(v, b[k]) = [mb_hash |-> Digest(b[k]), families |-> v.families,
                              medium_count |-> v.medium_count, issued |-> v.issued]
      BY <2>2, <2>3 DEF Written, Node
    <3>2. Written(v, b[k]) \in T
      BY <1>2, <2>1, <3>1
    <3> HIDE DEF T
    <3> QED BY <1>1, <2>2, <3>2 DEF Enriched
  <2>4. CASE b[k].items # NoBlock
    <3>1. Written(v, b[k]) = [mb_hash |-> Digest(b[k]), families |-> FamiliesOf(b[k].items),
                              medium_count |-> Len(b[k].items), issued |-> EdgeRows(b[k].items)]
      BY <2>4 DEF Written
    <3>2. Written(v, b[k]) \in T
      BY <1>2, <3>1
    <3> HIDE DEF T
    <3> QED BY <1>1, <2>2, <3>2 DEF Enriched
  <2> QED BY <2>3, <2>4
<1> QED BY <1>3, <1>4, <1>5

(* The node of r after each record of the batch, one enrich_release after the other *)
OneAfterAnother(p, r, b) ==
    /\ p[0] = release[r]
    /\ \A k \in 1 .. Len(b) : p[k] = Enriched(r, p[k - 1], b[k])
    /\ \A k \in 0 .. Len(b) : Node(p[k]) /\ Truthful(p[k])
    /\ p[Len(b)] = Sequentially(r, b)

LEMMA SequentialStates ==
    ASSUME NodesTruthful, NEW r \in Releases, NEW b, Len(b) \in Nat, DOMAIN b = 1 .. Len(b)
    PROVE  \E p : OneAfterAnother(p, r, b)
<1> DEFINE n == Len(b)
           V == Carried(r, b)
           c == [s \in SUBSET (1 .. n) |-> Max(s)]
           g == [q \in (1 .. n) \X V |-> Enriched(r, q[2], b[q[1]])]
           it == CHOOSE it : OneByOne(it, r, b)
<1>1. /\ release[r] \in V
      /\ \A v \in V : Node(v) /\ Truthful(v)
      /\ \A v \in V, k \in 1 .. n : Enriched(r, v, b[k]) \in V
  BY CarriedIsClosed
<1>2. \A s \in SUBSET (1 .. n) : s # {} => Max(s) \in s /\ \A y \in s : y <= Max(s)
  BY MaxOfPositions
<1> HIDE DEF V
<1>3. Chooses(c, 1 .. n)
  BY <1>2 DEF Chooses
<1>4. g \in [(1 .. n) \X V -> V] /\ \A k \in 1 .. n, v \in V : g[<<k, v>>] = Enriched(r, v, b[k])
  BY <1>1
<1>5. \A s \in SUBSET (1 .. n) : c[s] = Max(s)
  OBVIOUS
<1>6. n \in Nat /\ IsFiniteSet(1 .. n) /\ DOMAIN b = 1 .. n
  BY FS_Interval
<1> HIDE DEF c, g, n
<1>7. PICK f : Folds(f, 1 .. n, c, g, release[r], V)
  BY <1>1, <1>3, <1>4, <1>6, FoldExists
<1>8. f \in [SUBSET (1 .. n) -> V] /\ f[{}] = release[r]
  BY <1>7 DEF Folds
<1>9. ASSUME NEW s \in SUBSET (1 .. n), s # {}
      PROVE  f[s] = Enriched(r, f[s \ {Max(s)}], b[Max(s)])
  <2>1. f[s] = g[<<c[s], f[s \ {c[s]}]>>] /\ c[s] = Max(s)
    BY <1>5, <1>7, <1>9 DEF Folds
  <2>2. Max(s) \in 1 .. n /\ f[s \ {Max(s)}] \in V
    BY <1>2, <1>8, <1>9
  <2> QED BY <1>4, <2>1, <2>2
<1>10. OneByOne(f, r, b)
  <2>1. f = [s \in SUBSET (1 .. n) |-> f[s]]
    BY <1>8
  <2>2. \A s \in SUBSET (1 .. n) : f[s] = IF s = {} THEN release[r] ELSE Enriched(r, f[s \ {Max(s)}], b[Max(s)])
    BY <1>8, <1>9
  <2>3. f = [s \in SUBSET (1 .. n) |-> IF s = {} THEN release[r] ELSE Enriched(r, f[s \ {Max(s)}], b[Max(s)])]
    BY <2>1, <2>2
  <2> QED BY <1>6, <2>3 DEF OneByOne
<1>11. OneByOne(it, r, b)
  BY <1>10
<1> HIDE DEF it
<1>12. RecurAlike(f, it, 1 .. n)
  <2>1. it[{}] = release[r]
    BY <1>11 DEF OneByOne
  <2>2. ASSUME NEW s \in SUBSET (1 .. n), s # {}
        PROVE  \E x \in s : f[s \ {x}] = it[s \ {x}] => f[s] = it[s]
    <3>1. Max(s) \in s
      BY <1>2, <2>2
    <3>2. it[s] = Enriched(r, it[s \ {Max(s)}], b[Max(s)])
      BY <1>6, <1>11, <2>2 DEF OneByOne
    <3>3. f[s] = Enriched(r, f[s \ {Max(s)}], b[Max(s)])
      BY <1>9, <2>2
    <3> QED BY <3>1, <3>2, <3>3
  <2> QED BY <1>8, <2>1, <2>2 DEF RecurAlike
<1>13. f[1 .. n] = Sequentially(r, b)
  <2>1. f[1 .. n] = it[1 .. n]
    BY <1>6, <1>12, SameRecursion DEF EqualOnSubsets
  <2> QED BY <1>6, <2>1, SequentiallyIsFold DEF it
<1> DEFINE p == [k \in 0 .. n |-> f[1 .. k]]
<1>14. \A k \in 0 .. n : p[k] = f[1 .. k] /\ p[k] \in V
  <2> TAKE k \in 0 .. n
  <2>1. 1 .. k \in SUBSET (1 .. n)
    BY <1>6
  <2> QED BY <1>8, <2>1
<1>15. p[0] = release[r]
  <2>1. 1 .. 0 = {}
    OBVIOUS
  <2> QED BY <1>6, <1>8, <2>1
<1> HIDE DEF p
<1>16. ASSUME NEW k \in 1 .. n PROVE p[k] = Enriched(r, p[k - 1], b[k])
  <2>1. 1 .. k \in SUBSET (1 .. n) /\ 1 .. k # {} /\ k \in 1 .. k /\ k \in 0 .. n /\ k - 1 \in 0 .. n
    <3>1. k \in Int /\ 1 <= k /\ k <= n
      BY <1>6
    <3>2. 1 .. k \in SUBSET (1 .. n)
      BY <1>6, <3>1
    <3>3. k \in 1 .. k
      BY <3>1
    <3>4. k \in 0 .. n /\ k - 1 \in 0 .. n
      BY <1>6, <3>1
    <3>5. 1 .. k # {}
      BY <3>3
    <3> HIDE DEF n
    <3> QED BY <3>2, <3>3, <3>4, <3>5
  <2>2. Max(1 .. k) = k
    <3>1. Max(1 .. k) \in 1 .. k /\ k <= Max(1 .. k)
      BY <1>2, <2>1
    <3> QED BY <2>1, <3>1
  <2>3. (1 .. k) \ {k} = 1 .. k - 1
    BY <2>1
  <2>4. f[1 .. k] = Enriched(r, f[1 .. k - 1], b[k])
    BY <1>9, <2>1, <2>2, <2>3
  <2> QED BY <1>14, <2>1, <2>4
<1>17. OneAfterAnother(p, r, b)
  <2>1. p[n] = Sequentially(r, b)
    BY <1>6, <1>13, <1>14
  <2>2. \A k \in 0 .. n : Node(p[k]) /\ Truthful(p[k])
    BY <1>1, <1>14
  <2> QED BY <1>15, <1>16, <2>1, <2>2 DEF OneAfterAnother, n
<1> QED BY <1>17

(* A commit writes the row of r to the node of r, or finds that it would change nothing *)
LEMMA RowIsWritten ==
    ASSUME MediaInv, NodesTruthful, NEW x \in Flushes, Commit(x), GateIsFresh(x),
           NEW i \in Rows(batch[x]), batch[x][i].release \in nodes
    PROVE  release'[batch[x][i].release] = Written(release[batch[x][i].release], batch[x][i])
<1> DEFINE r == batch[x][i].release
<1>1. TypeInv
  BY DEF MediaInv, LockInv
<1>2. /\ r \in Releases /\ changed[x] \subseteq Rows(batch[x])
      /\ batch[x] \in Batches \cup {<<>>} /\ i \in DOMAIN batch[x]
  BY <1>1 DEF TypeInv, Rows
<1>3. \A j \in changed[x] : batch[x][j].release = r => j = i
  BY <1>2, RowsAreDistinct
<1>4. CASE i \in changed[x]
  BY <1>1, <1>2, <1>3, <1>4, CommittedRelease
<1>5. CASE i \notin changed[x]
  <2>1. ~Changed(release[r], batch[x][i])
    BY <1>5 DEF GateIsFresh
  <2>2. batch[x] \in Batches
    BY <1>2
  <2>3. Written(release[r], batch[x][i]) = release[r]
    BY <1>2, <2>1, <2>2, RewriteIsIdle DEF NodesTruthful
  <2>4. release'[r] = release[r]
    BY <1>1, <1>2, <1>3, <1>5, CommittedRelease
  <2> QED BY <2>3, <2>4
<1> QED BY <1>4, <1>5

(* One record after the other ends in the last record of r, written to what was there before it *)
LEMMA LastRecordCounts ==
    ASSUME NEW r \in Releases, NEW b \in Batches \cup {<<>>}, NEW p, OneAfterAnother(p, r, b),
           NEW i \in Rows(b), b[i].release = r
    PROVE  Sequentially(r, b) = Written(p[i - 1], b[i])
<1>1. Len(b) \in Nat /\ DOMAIN b = 1 .. Len(b)
  BY BatchesAssumption
<1>2. i \in 1 .. Len(b) /\ i \in Int /\ \A k \in i + 1 .. Len(b) : b[k].release # r
  BY <1>1 DEF Rows
<1>3. b \in Batches
  BY <1>1, <1>2
<1>4. p[i] = Enriched(r, p[i - 1], b[i]) /\ Node(p[i - 1]) /\ Truthful(p[i - 1])
  <2>1. i - 1 \in 0 .. Len(b)
    BY <1>1, <1>2
  <2> QED BY <1>2, <2>1 DEF OneAfterAnother
<1>5. p[i] = Written(p[i - 1], b[i])
  BY <1>1, <1>2, <1>3, <1>4, RewriteIsIdle DEF Enriched
<1>6. \A k \in i + 1 .. Len(b) : p[k] = p[k - 1]
  <2> TAKE k \in i + 1 .. Len(b)
  <2>1. k \in 1 .. Len(b)
    BY <1>1, <1>2
  <2> QED BY <1>2, <2>1 DEF OneAfterAnother, Enriched
<1>7. p[Len(b)] = p[i]
  <2>1. i \in 0 .. Len(b)
    BY <1>1, <1>2
  <2> QED BY <1>1, <1>6, <2>1, Stays
<1> QED BY <1>5, <1>7 DEF OneAfterAnother

(* The records before position i leave the release alone when none of them is of it *)
LEMMA OthersLeaveIt ==
    ASSUME NEW r \in Releases, NEW b \in Batches \cup {<<>>}, NEW p, OneAfterAnother(p, r, b),
           NEW i \in 0 .. Len(b), \A j \in 1 .. i : b[j].release # r
    PROVE  p[i] = release[r]
<1>1. Len(b) \in Nat
  BY BatchesAssumption
<1>2. i \in Nat /\ 0 \in 0 .. i
  BY <1>1
<1>3. \A k \in 0 + 1 .. i : p[k] = p[k - 1]
  <2> TAKE k \in 0 + 1 .. i
  <2>1. k \in 1 .. i /\ k \in 1 .. Len(b)
    BY <1>1, <1>2
  <2> QED BY <2>1 DEF OneAfterAnother, Enriched
<1>4. p[i] = p[0]
  BY <1>2, <1>3, Stays
<1> QED BY <1>4 DEF OneAfterAnother

(* A release that has a record in the batch has a row *)
LEMMA HasRow ==
    ASSUME NEW b \in Batches \cup {<<>>}, NEW r \in Releases, NEW k \in DOMAIN b, b[k].release = r
    PROVE  \E i \in Rows(b) : b[i].release = r
<1> DEFINE S == {i \in DOMAIN b : b[i].release = r}
<1>1. Len(b) \in Nat /\ DOMAIN b = 1 .. Len(b)
  BY BatchesAssumption
<1>2. S \in SUBSET (1 .. Len(b)) /\ S # {}
  BY <1>1
<1>3. IsFiniteSet(S) /\ S \subseteq Int
  <2>1. IsFiniteSet(1 .. Len(b))
    BY <1>1, FS_Interval
  <2> HIDE DEF S
  <2>2. IsFiniteSet(S)
    BY <1>2, <2>1, FS_Subset
  <2> QED BY <1>2, <2>2
<1>4. PICK i \in S : \A j \in S : j <= i
  <2> HIDE DEF S
  <2> QED BY <1>2, <1>3, Greatest
<1>5. ASSUME NEW j \in i + 1 .. Len(b) PROVE b[j].release # r
  <2>1. j \in 1 .. Len(b) /\ ~(j <= i)
    BY <1>1, <1>2, <1>4
  <2> QED BY <1>1, <1>4, <2>1
<1> QED BY <1>4, <1>5 DEF Rows

(* What a commit leaves of a release is what its records in turn would leave *)
LEMMA CommitCollapses ==
    ASSUME MediaInv, NodesTruthful, NEW x \in Flushes, Commit(x), GateIsFresh(x),
           NEW r \in nodes, LastHasBlock(r, batch[x])
    PROVE  release'[r] = Sequentially(r, batch[x])
<1> DEFINE b == batch[x]
<1>1. TypeInv
  BY DEF MediaInv, LockInv
<1>2. r \in Releases /\ b \in Batches \cup {<<>>}
  BY <1>1 DEF TypeInv
<1>3. Len(b) \in Nat /\ DOMAIN b = 1 .. Len(b)
  BY <1>2, BatchesAssumption
<1>4. PICK p : OneAfterAnother(p, r, b)
  <2> HIDE DEF b
  <2> QED BY <1>2, <1>3, SequentialStates
<1>5. CASE \E k \in DOMAIN b : b[k].release = r
  <2>1. PICK i \in Rows(b) : b[i].release = r
    <3> HIDE DEF b
    <3> QED BY <1>2, <1>5, HasRow
  <2>2. release'[r] = Written(release[r], b[i])
    BY <2>1, RowIsWritten
  <2>3. Sequentially(r, b) = Written(p[i - 1], b[i])
    <3> HIDE DEF b
    <3> QED BY <1>2, <1>4, <2>1, LastRecordCounts
  <2>4. CASE b[i].items # NoBlock
    BY <2>2, <2>3, <2>4 DEF Written
  <2>5. CASE \A j \in 1 .. i - 1 : b[j].release # r
    <3>1. i - 1 \in 0 .. Len(b)
      BY <1>3, <2>1 DEF Rows
    <3>2. p[i - 1] = release[r]
      <4> HIDE DEF b
      <4> QED BY <1>2, <1>4, <2>5, <3>1, OthersLeaveIt
    <3> QED BY <2>2, <2>3, <3>2
  <2> QED BY <2>1, <2>4, <2>5 DEF LastHasBlock
<1>6. CASE \A k \in DOMAIN b : b[k].release # r
  <2>1. Len(b) \in 0 .. Len(b) /\ \A j \in 1 .. Len(b) : b[j].release # r
    BY <1>3, <1>6
  <2>2. p[Len(b)] = release[r]
    <3> HIDE DEF b
    <3> QED BY <1>2, <1>4, <2>1, OthersLeaveIt
  <2>3. \A i \in changed[x] : b[i].release # r
    BY <1>1, <1>6 DEF TypeInv, Rows
  <2>4. release'[r] = release[r]
    BY <1>1, <1>2, <2>3, CommittedRelease
  <2> QED BY <1>4, <2>2, <2>4 DEF OneAfterAnother
<1> QED BY <1>5, <1>6

(***************************************************************************)
(* One row for the last record of each release leaves the release as       *)
(* enrich_release on every record in turn would, for every batch in which  *)
(* the last of several duplicates has a media block, whatever the gate     *)
(* skips and whatever the other flushes do (_run_entity_batch).            *)
(***************************************************************************)
THEOREM CollapsesExactly == Spec => CollapseIsExact
<1> DEFINE Exact == \A x \in Flushes : Commit(x) /\ GateIsFresh(x) =>
                        \A r \in nodes : LastHasBlock(r, batch[x]) => release'[r] = Sequentially(r, batch[x])
<1>1. MediaInv /\ NodesTruthful /\ [Next]_vars => [Exact]_vars
  BY CommitCollapses
<1>2. Init => NodesTruthful
  <2> SUFFICES ASSUME Init, NEW r \in Releases PROVE Node(release[r]) /\ Truthful(release[r])
    BY DEF NodesTruthful
  <2>1. release[r] = [mb_hash |-> NoHash, families |-> {}, medium_count |-> 0, issued |-> <<>>]
    BY DEF Init
  <2> QED BY <2>1 DEF Node, Truthful
<1>3. Spec => []NodesTruthful
  BY <1>2, StepTruthful, PTL DEF Spec
<1>4. Spec => [][Exact]_vars
  <2> HIDE DEF Exact
  <2> QED BY <1>1, <1>3, MediaInvariant, PTL DEF Spec
<1> QED BY <1>4 DEF CollapseIsExact
=============================================================================
