------------------------- MODULE ReleaseMediaProofs -------------------------
(***************************************************************************)
(* Theorems about ReleaseMedia, for every set of releases, media, batches  *)
(* and concurrent flushes.                                                 *)
(***************************************************************************)
EXTENDS ReleaseMedia, FoldLemmas

(* What a release node carries, as far as the proof needs it *)
Node(node) == node = [mb_hash |-> node.mb_hash, families |-> node.families,
                      medium_count |-> node.medium_count, issued |-> node.issued]

(* The digest of one node is truthful *)
Truthful(node) ==
    node.mb_hash # NoHash /\ node.mb_hash[2] # NoBlock =>
        node.mb_hash[2] = <<node.families, node.medium_count, node.issued>>

NodesTruthful == \A r \in Releases : Node(release[r]) /\ Truthful(release[r])

(* Writing a record leaves a truthful node: the digest and the media go together *)
LEMMA WrittenTruthful ==
    ASSUME NEW node, NEW rec, Node(node)
    PROVE  Node(Written(node, rec)) /\ Truthful(Written(node, rec))
<1>1. Digest(rec)[2] = MediaDigest(rec.items)
  BY DEF Digest
<1>2. CASE rec.items = NoBlock
  <2>1. MediaDigest(rec.items) = NoBlock
    BY <1>2 DEF MediaDigest
  <2>2. Written(node, rec) = [mb_hash |-> Digest(rec), families |-> node.families,
                              medium_count |-> node.medium_count, issued |-> node.issued]
    BY <1>2 DEF Written, Node
  <2> QED BY <1>1, <2>1, <2>2 DEF Node, Truthful
<1>3. CASE rec.items # NoBlock
  <2>1. MediaDigest(rec.items) = <<FamiliesOf(rec.items), Len(rec.items), EdgeRows(rec.items)>>
    BY <1>3 DEF MediaDigest
  <2>2. Written(node, rec) = [mb_hash |-> Digest(rec), families |-> FamiliesOf(rec.items),
                              medium_count |-> Len(rec.items), issued |-> EdgeRows(rec.items)]
    BY <1>3 DEF Written
  <2> QED BY <1>1, <2>1, <2>2 DEF Node, Truthful
<1> QED BY <1>2, <1>3

(* Only a commit touches the releases *)
LEMMA StepTruthful ==
    ASSUME NodesTruthful, [Next]_vars
    PROVE  NodesTruthful'
<1>1. CASE UNCHANGED release
  BY <1>1 DEF NodesTruthful, Node, Truthful
<1>2. ASSUME NEW x \in Flushes, Commit(x) PROVE NodesTruthful'
  <2>1. ASSUME NEW r \in Releases PROVE Node(release'[r]) /\ Truthful(release'[r])
    <3>1. Node(release[r]) /\ Truthful(release[r])
      BY DEF NodesTruthful
    <3>2. release'[r] = release[r] \/ \E rec : release'[r] = Written(release[r], rec)
      BY <1>2 DEF Commit
    <3> QED BY <3>1, <3>2, WrittenTruthful
  <2> QED BY <2>1 DEF NodesTruthful, Node, Truthful
<1>3. UNCHANGED release \/ \E x \in Flushes : Commit(x)
  BY DEF Next, vars, graphVars, flushVars, Begin, Acquire, LockFamilies, LockMedia, Sweep, Abort,
         AddRelease, Attach, Detach
<1> QED BY <1>1, <1>2, <1>3

(***************************************************************************)
(* The digest tells the truth about the media, however batches, gates and  *)
(* flushes interleave: this is what lets the gate of enrich_releases_batch *)
(* skip the media statements of an unchanged release.                      *)
(***************************************************************************)
THEOREM DigestsTellMedia == Spec => []DigestTellsMedia
<1>1. Init => NodesTruthful
  <2> DEFINE empty == [mb_hash |-> NoHash, families |-> {}, medium_count |-> 0, issued |-> <<>>]
  <2>1. Node(empty) /\ Truthful(empty)
    BY DEF Node, Truthful
  <2>2. Init => \A r \in Releases : release[r] = empty
    BY DEF Init
  <2> QED BY <2>1, <2>2 DEF NodesTruthful
<1>2. NodesTruthful => DigestTellsMedia
  BY DEF NodesTruthful, Truthful, DigestTellsMedia
<1> QED BY <1>1, <1>2, StepTruthful, PTL DEF Spec

-----------------------------------------------------------------------------
(* Sorted enumerations. *)

(* A nonempty finite set of integers has a greatest element *)
LEMMA Greatest ==
    ASSUME NEW S, S \subseteq Int, IsFiniteSet(S), S # {}
    PROVE  \E x \in S : \A y \in S : y <= x
<1> DEFINE n == Cardinality(S)
           a == Ascending(S)
<1>1. /\ n \in Nat /\ a \in [1 .. n -> S]
      /\ \A i, j \in 1 .. n : i < j => a[i] < a[j]
      /\ \A x \in S : \E i \in 1 .. n : a[i] = x
  BY AscendingIsSorted
<1> HIDE DEF n, a
<1>2. n \in 1 .. n /\ a[n] \in S
  <2>1. PICK x \in S : TRUE
    OBVIOUS
  <2>2. PICK i \in 1 .. n : a[i] = x
    BY <1>1
  <2>3. n \in 1 .. n
    BY <1>1
  <2> QED BY <1>1, <2>3
<1>3. ASSUME NEW y \in S PROVE y <= a[n]
  <2>1. PICK i \in 1 .. n : a[i] = y
    BY <1>1
  <2>2. y \in Int /\ a[n] \in Int
    BY <1>2
  <2>3. CASE i = n
    BY <2>1, <2>2, <2>3
  <2>4. CASE i < n
    <3>1. a[i] < a[n]
      BY <1>1, <1>2, <2>4
    <3> QED BY <2>1, <2>2, <3>1
  <2> QED BY <1>1, <2>3, <2>4
<1> QED BY <1>2, <1>3

(* The locks of one kind, in order: exactly those of S *)
LEMMA InOrderIsSorted ==
    ASSUME NEW S, S \subseteq Int, IsFiniteSet(S), NEW kind
    PROVE  /\ InOrder(kind, S) \in Seq({kind} \X S)
           /\ \A l \in {kind} \X S : \E k \in DOMAIN InOrder(kind, S) : InOrder(kind, S)[k] = l
           /\ \A j, k \in DOMAIN InOrder(kind, S) : j < k => InOrder(kind, S)[j][2] < InOrder(kind, S)[k][2]
<1> DEFINE n == Cardinality(S)
           a == Ascending(S)
           o == InOrder(kind, S)
<1>1. /\ n \in Nat /\ a \in [1 .. n -> S]
      /\ \A i, j \in 1 .. n : i < j => a[i] < a[j]
      /\ \A x \in S : \E i \in 1 .. n : a[i] = x
  BY AscendingIsSorted
<1> HIDE DEF n, a
<1>2. o = [k \in 1 .. n |-> <<kind, a[k]>>]
  BY <1>1 DEF InOrder, a
<1> HIDE DEF o
<1>3. DOMAIN o = 1 .. n /\ \A k \in 1 .. n : o[k] = <<kind, a[k]>>
  BY <1>2
<1>4. o \in Seq({kind} \X S)
  BY <1>1, <1>2
<1>5. \A l \in {kind} \X S : \E k \in DOMAIN o : o[k] = l
  <2> SUFFICES ASSUME NEW l \in {kind} \X S PROVE \E k \in DOMAIN o : o[k] = l
    OBVIOUS
  <2> DEFINE x == l[2]
  <2>0. x \in S /\ l = <<kind, x>>
    OBVIOUS
  <2>1. PICK i \in 1 .. n : a[i] = x
    BY <1>1
  <2> QED BY <1>3, <2>0, <2>1
<1>6. \A j, k \in DOMAIN o : j < k => o[j][2] < o[k][2]
  <2> SUFFICES ASSUME NEW j \in 1 .. n, NEW k \in 1 .. n, j < k PROVE o[j][2] < o[k][2]
    BY <1>3
  <2>1. o[j][2] = a[j] /\ o[k][2] = a[k]
    BY <1>3
  <2> QED BY <1>1, <2>1
<1> QED BY <1>4, <1>5, <1>6 DEF o

-----------------------------------------------------------------------------
(* The locks of a flush. *)

(* The kind of lock that a statement waits for *)
KindOf(s) == CASE s = "releases" -> "release" [] s = "families" -> "family" [] OTHER -> "medium"

(* The stages of a flush that has its release locks, and its family locks as well *)
PastReleases == {"families", "media", "edges"}
PastFamilies == {"media", "edges"}

(* The locks each statement takes *)
ReleaseSet(x) == {<<"release", batch[x][i].release>> : i \in changed[x]}
FamilySet(x) == {"family"} \X {Family[m] : m \in Attached(x) \cup Issued(x)}
MediumSet(x) == {"medium"} \X (Attached(x) \cup {e[2] : e \in StaleEdges(x)})

(* x holds l, or the statement it is at still has to take l *)
Due(x, l) == holder[l] = x \/ \E k \in DOMAIN want[x] : want[x][k] = l

TypeInv ==
    /\ nodes \subseteq Releases
    /\ \A r \in Releases : Node(release[r]) /\ DOMAIN release[r].issued \subseteq Media
    /\ discogs \subseteq DiscogsEdges
    /\ stage \in [Flushes -> {"idle", "releases", "families", "media", "edges"}]
    /\ batch \in [Flushes -> Batches \cup {<<>>}]
    /\ changed \in [Flushes -> SUBSET Int]
    /\ \A x \in Flushes : changed[x] \subseteq Rows(batch[x])
    /\ want \in [Flushes -> Seq(Locks)]
    /\ holder \in [Locks -> Flushes \cup {nobody}]
    /\ pruned \in [Flushes -> SUBSET Media]

(* Every lock of a statement that has begun is held or still in the row of what x waits for *)
DueAt(x) ==
    /\ \A l \in ReleaseSet(x) : Due(x, l)
    /\ stage[x] \in PastReleases => \A l \in FamilySet(x) : Due(x, l)
    /\ stage[x] \in PastFamilies => \A l \in MediumSet(x) : Due(x, l)

(* A flush waits for the locks of one statement, and holds those of no later one *)
WantAt(x) ==
    /\ stage[x] \in {"idle", "edges"} => want[x] = <<>>
    /\ \A k \in DOMAIN want[x] : want[x][k][1] = KindOf(stage[x])
    /\ stage[x] = "idle" => changed[x] = {}
    /\ \A l \in Locks : holder[l] = x =>
           /\ stage[x] # "idle"
           /\ l[1] = "family" => stage[x] \in PastReleases
           /\ l[1] = "medium" => stage[x] \in PastFamilies

(* Families and media are taken in ascending order *)
OrderAt(x) ==
    stage[x] \in {"families", "media"} =>
        /\ \A k \in DOMAIN want[x] : \A l \in Locks :
               holder[l] = x /\ l[1] = KindOf(stage[x]) => l[2] < want[x][k][2]
        /\ \A j, k \in DOMAIN want[x] : j < k => want[x][j][2] < want[x][k][2]

LocksAt(x) == DueAt(x) /\ WantAt(x) /\ OrderAt(x)

LockInv == TypeInv /\ \A x \in Flushes : LocksAt(x)

(* What a flush has pruned is still orphaned when it commits *)
PrunedInv == \A x \in Flushes : pruned[x] = IF stage[x] = "edges" THEN Orphans(x) ELSE {}

MediaInv == LockInv /\ NoDanglingEdge /\ PrunedInv

-----------------------------------------------------------------------------
(* The rows and the media of a flush. *)

(* Rows of a batch are finitely many positions, one for each release *)
LEMMA RowsAreDistinct ==
    ASSUME NEW b \in Batches \cup {<<>>}
    PROVE  /\ Rows(b) \subseteq DOMAIN b /\ Rows(b) \subseteq Int /\ IsFiniteSet(Rows(b))
           /\ \A i \in Rows(b) : b[i].release \in Releases
           /\ \A i, j \in Rows(b) : b[i].release = b[j].release => i = j
<1>1. Len(b) \in Nat /\ DOMAIN b = 1 .. Len(b)
  BY BatchesAssumption
<1>2. Rows(b) \in SUBSET (1 .. Len(b))
  BY <1>1 DEF Rows
<1>3. IsFiniteSet(1 .. Len(b))
  BY <1>1, FS_Interval
<1>4. IsFiniteSet(Rows(b))
  BY <1>2, <1>3, FS_Subset
<1>5. ASSUME NEW i \in Rows(b), NEW j \in Rows(b), b[i].release = b[j].release, i < j PROVE FALSE
  <2>1. j \in i + 1 .. Len(b)
    BY <1>1, <1>2, <1>5
  <2> QED BY <1>5, <2>1 DEF Rows
<1>6. ASSUME NEW i \in Rows(b), NEW j \in Rows(b), b[i].release = b[j].release PROVE i = j
  <2>1. i \in Int /\ j \in Int
    BY <1>2
  <2>2. ~(i < j) /\ ~(j < i)
    BY <1>5, <1>6
  <2> QED BY <2>1, <2>2
<1> QED BY <1>1, <1>2, <1>4, <1>6 DEF Rows

(* The families of some media are finitely many numbers *)
LEMMA FamiliesOfMedia ==
    ASSUME NEW T \in SUBSET Media
    PROVE  /\ {Family[m] : m \in T} \subseteq Families
           /\ {Family[m] : m \in T} \subseteq Int
           /\ IsFiniteSet({Family[m] : m \in T})
<1> DEFINE F == {Family[m] : m \in T}
           f == [m \in T |-> Family[m]]
<1>1. F \subseteq Families /\ F \subseteq Int
  BY VocabularyAssumption DEF Families
<1>2. IsFiniteSet(T)
  BY VocabularyAssumption, FS_Subset
<1>3. f \in Surjection(T, F)
  BY DEF Surjection
<1> HIDE DEF F, f
<1>4. IsFiniteSet(F)
  BY <1>2, <1>3, FS_Surjection
<1> QED BY <1>1, <1>4 DEF F

(* What the statements of a flush are about *)
LEMMA MediaOfFlush ==
    ASSUME TypeInv, NEW x \in Flushes
    PROVE  /\ Attached(x) \subseteq Media
           /\ Issued(x) \subseteq Media
           /\ StaleEdges(x) \subseteq Releases \X Media
           /\ {e[2] : e \in StaleEdges(x)} \subseteq Media
           /\ \A i \in Summaries(x) : batch[x][i].release \in Releases
<1>1. Attached(x) \subseteq Media
  BY DEF Attached, MediumIds
<1>2. \A i \in Summaries(x) : batch[x][i].release \in Releases
  BY RowsAreDistinct DEF Summaries, TypeInv
<1>3. Issued(x) \subseteq Media
  BY <1>2 DEF Issued, TypeInv
<1>4. StaleEdges(x) \subseteq Releases \X Media
  BY <1>2 DEF StaleEdges, TypeInv
<1>5. {e[2] : e \in StaleEdges(x)} \subseteq Media
  BY <1>4
<1> QED BY <1>1, <1>2, <1>3, <1>4, <1>5

(* The row of locks that each statement computes: all it needs, of one kind, in ascending order *)
LEMMA FamilyLocksRow ==
    ASSUME TypeInv, NEW x \in Flushes
    PROVE  /\ FamilyLocks(x) \in Seq(Locks)
           /\ \A l \in FamilySet(x) : \E k \in DOMAIN FamilyLocks(x) : FamilyLocks(x)[k] = l
           /\ \A k \in DOMAIN FamilyLocks(x) : FamilyLocks(x)[k][1] = "family"
           /\ \A j, k \in DOMAIN FamilyLocks(x) : j < k => FamilyLocks(x)[j][2] < FamilyLocks(x)[k][2]
<1> DEFINE T == Attached(x) \cup Issued(x)
           F == {Family[m] : m \in T}
           q == InOrder("family", F)
<1>1. T \in SUBSET Media
  BY MediaOfFlush
<1>2. F \subseteq Families /\ F \subseteq Int /\ IsFiniteSet(F)
  BY <1>1, FamiliesOfMedia
<1>3. FamilyLocks(x) = q /\ FamilySet(x) = {"family"} \X F
  BY DEF FamilyLocks, FamilySet
<1> HIDE DEF F
<1>4. /\ q \in Seq({"family"} \X F)
      /\ \A l \in {"family"} \X F : \E k \in DOMAIN q : q[k] = l
      /\ \A j, k \in DOMAIN q : j < k => q[j][2] < q[k][2]
  BY <1>2, InOrderIsSorted
<1> HIDE DEF q
<1>5. q \in Seq(Locks) /\ \A k \in DOMAIN q : q[k][1] = "family"
  <2>1. {"family"} \X F \subseteq Locks /\ \A l \in {"family"} \X F : l[1] = "family"
    BY <1>2 DEF Locks
  <2> QED BY <1>4, <2>1
<1> QED BY <1>3, <1>4, <1>5

LEMMA MediumLocksRow ==
    ASSUME TypeInv, NEW x \in Flushes
    PROVE  /\ MediumLocks(x) \in Seq(Locks)
           /\ \A l \in MediumSet(x) : \E k \in DOMAIN MediumLocks(x) : MediumLocks(x)[k] = l
           /\ \A k \in DOMAIN MediumLocks(x) : MediumLocks(x)[k][1] = "medium"
           /\ \A j, k \in DOMAIN MediumLocks(x) : j < k => MediumLocks(x)[j][2] < MediumLocks(x)[k][2]
<1> DEFINE M == Attached(x) \cup {e[2] : e \in StaleEdges(x)}
           q == InOrder("medium", M)
<1>1. M \in SUBSET Media
  BY MediaOfFlush
<1> HIDE DEF M
<1>2. M \subseteq Int /\ IsFiniteSet(M)
  <2>1. M \subseteq Int
    BY <1>1, VocabularyAssumption
  <2>2. IsFiniteSet(M)
    BY <1>1, VocabularyAssumption, FS_Subset
  <2> QED BY <2>1, <2>2
<1>3. MediumLocks(x) = q /\ MediumSet(x) = {"medium"} \X M
  BY DEF MediumLocks, MediumSet, M
<1>4. /\ q \in Seq({"medium"} \X M)
      /\ \A l \in {"medium"} \X M : \E k \in DOMAIN q : q[k] = l
      /\ \A j, k \in DOMAIN q : j < k => q[j][2] < q[k][2]
  BY <1>2, InOrderIsSorted
<1> HIDE DEF q
<1>5. q \in Seq(Locks) /\ \A k \in DOMAIN q : q[k][1] = "medium"
  <2>1. {"medium"} \X M \subseteq Locks /\ \A l \in {"medium"} \X M : l[1] = "medium"
    BY <1>1 DEF Locks
  <2> QED BY <1>4, <2>1
<1> QED BY <1>3, <1>4, <1>5

(* The want' of Begin *)
ReleaseLocks(b, rows) ==
    LET s == Ascending(rows) IN [k \in DOMAIN s |-> <<"release", b[s[k]].release>>]

(* The row of release locks: one for each changed row, in the order of the batch *)
LEMMA ReleaseLocksRow ==
    ASSUME NEW b \in Batches, NEW rows, rows \subseteq Rows(b)
    PROVE  LET q == ReleaseLocks(b, rows)
           IN  /\ q \in Seq(Locks)
               /\ \A i \in rows : \E k \in DOMAIN q : q[k] = <<"release", b[i].release>>
               /\ \A k \in DOMAIN q : q[k][1] = "release"
<1>1. rows \subseteq Int /\ IsFiniteSet(rows) /\ \A i \in rows : b[i].release \in Releases
  BY RowsAreDistinct, FS_Subset
<1> DEFINE n == Cardinality(rows)
           s == Ascending(rows)
           q == ReleaseLocks(b, rows)
<1>2. n \in Nat /\ s \in [1 .. n -> rows] /\ \A i \in rows : \E k \in 1 .. n : s[k] = i
  BY <1>1, AscendingIsSorted
<1> HIDE DEF n
<1>0. q = [k \in 1 .. n |-> <<"release", b[s[k]].release>>]
  BY <1>2 DEF ReleaseLocks
<1> HIDE DEF q, s
<1>3. /\ DOMAIN q = 1 .. n
      /\ \A k \in 1 .. n : q[k] = <<"release", b[s[k]].release>> /\ q[k] \in Locks
  BY <1>0, <1>1, <1>2 DEF Locks
<1>4. q \in Seq(Locks)
  <2>1. q \in [1 .. n -> Locks]
    BY <1>0, <1>3
  <2> QED BY <1>2, <2>1
<1>5. \A i \in rows : \E k \in DOMAIN q : q[k] = <<"release", b[i].release>>
  <2> TAKE i \in rows
  <2>1. PICK k \in 1 .. n : s[k] = i
    BY <1>2
  <2> QED BY <1>3, <2>1
<1>6. \A k \in DOMAIN q : q[k][1] = "release"
  BY <1>3
<1> QED BY <1>4, <1>5, <1>6 DEF q

-----------------------------------------------------------------------------
(* The invariant of the locks. *)

(* A commit writes each release by its one row, and leaves the others alone *)
LEMMA CommittedRelease ==
    ASSUME TypeInv, NEW x \in Flushes, Commit(x), NEW r \in Releases
    PROVE  \/ \E i \in changed[x] : batch[x][i].release = r /\ release'[r] = Written(release[r], batch[x][i])
           \/ (\A i \in changed[x] : batch[x][i].release # r) /\ release'[r] = release[r]
<1>1. release'[r] = IF \E i \in changed[x] : batch[x][i].release = r
                    THEN Written(release[r], batch[x][CHOOSE i \in changed[x] : batch[x][i].release = r])
                    ELSE release[r]
  BY DEF Commit
<1> QED BY <1>1

(* The media of a node that a record is written to are the record's, if it has a block *)
LEMMA WrittenIssued ==
    ASSUME NEW node, NEW rec, Node(node)
    PROVE  DOMAIN Written(node, rec).issued =
               IF rec.items = NoBlock THEN DOMAIN node.issued ELSE MediumIds(rec.items)
<1>1. CASE rec.items = NoBlock
  <2>1. Written(node, rec) = [mb_hash |-> Digest(rec), families |-> node.families,
                              medium_count |-> node.medium_count, issued |-> node.issued]
    BY <1>1 DEF Written, Node
  <2> QED BY <1>1, <2>1
<1>2. CASE rec.items # NoBlock
  <2>1. Written(node, rec).issued = EdgeRows(rec.items)
    BY <1>2 DEF Written
  <2> QED BY <1>2, <2>1 DEF EdgeRows
<1> QED BY <1>1, <1>2

(* A flush that neither acts nor loses a release it has locked keeps its media *)
LEMMA SameMedia ==
    ASSUME NEW y \in Flushes, batch'[y] = batch[y], changed'[y] = changed[y]
    PROVE  /\ ReleaseSet(y)' = ReleaseSet(y)
           /\ Summaries(y)' = Summaries(y)
           /\ Attached(y)' = Attached(y)
           /\ (\A i \in changed[y] : release'[batch[y][i].release] = release[batch[y][i].release]) =>
                  Issued(y)' = Issued(y) /\ StaleEdges(y)' = StaleEdges(y)
<1>1. Summaries(y)' = Summaries(y) /\ Summaries(y) \subseteq changed[y]
  BY DEF Summaries
<1>2. Attached(y)' = Attached(y)
  BY <1>1 DEF Attached
<1>3. ReleaseSet(y)' = ReleaseSet(y)
  BY DEF ReleaseSet
<1>4. ASSUME \A i \in changed[y] : release'[batch[y][i].release] = release[batch[y][i].release]
      PROVE  Issued(y)' = Issued(y) /\ StaleEdges(y)' = StaleEdges(y)
  <2>1. \A i \in Summaries(y) : release'[batch[y][i].release] = release[batch[y][i].release]
    BY <1>1, <1>4
  <2>2. Issued(y)' = Issued(y)
    BY <1>1, <2>1 DEF Issued
  <2>3. StaleEdges(y)' = StaleEdges(y)
    BY <1>1, <2>1 DEF StaleEdges
  <2> QED BY <2>2, <2>3
<1> QED BY <1>1, <1>2, <1>3, <1>4

(* What another flush does leaves the locks of y as they are *)
LEMMA OtherFlush ==
    ASSUME NEW y \in Flushes, LocksAt(y),
           stage'[y] = stage[y], batch'[y] = batch[y], changed'[y] = changed[y], want'[y] = want[y],
           \A l \in Locks : holder'[l] = y <=> holder[l] = y,
           TypeInv,
           stage[y] \in PastReleases =>
               \A i \in changed[y] : release'[batch[y][i].release] = release[batch[y][i].release]
    PROVE  LocksAt(y)'
<1>1. ReleaseSet(y)' = ReleaseSet(y) /\ ReleaseSet(y) \subseteq Locks
  <2>1. \A i \in changed[y] : batch[y][i].release \in Releases
    BY RowsAreDistinct DEF TypeInv
  <2> QED BY <2>1, SameMedia DEF ReleaseSet, Locks
<1>2. stage[y] \in PastReleases =>
          /\ FamilySet(y)' = FamilySet(y) /\ FamilySet(y) \subseteq Locks
          /\ MediumSet(y)' = MediumSet(y) /\ MediumSet(y) \subseteq Locks
  <2>1. Attached(y) \subseteq Media /\ Issued(y) \subseteq Media /\ {e[2] : e \in StaleEdges(y)} \subseteq Media
    BY MediaOfFlush
  <2>2. FamilySet(y) \subseteq Locks /\ MediumSet(y) \subseteq Locks
    BY <2>1 DEF FamilySet, MediumSet, Locks, Families
  <2>3. stage[y] \in PastReleases => FamilySet(y)' = FamilySet(y) /\ MediumSet(y)' = MediumSet(y)
    BY SameMedia DEF FamilySet, MediumSet
  <2> QED BY <2>2, <2>3
<1>3. \A l \in Locks : Due(y, l)' <=> Due(y, l)
  BY DEF Due
<1>4. DueAt(y)'
  BY <1>1, <1>2, <1>3 DEF DueAt, LocksAt, PastReleases, PastFamilies
<1>5. WantAt(y)'
  BY DEF WantAt, LocksAt
<1>6. OrderAt(y)'
  BY DEF OrderAt, LocksAt
<1> QED BY <1>4, <1>5, <1>6 DEF LocksAt

(* The locks that a flush has once it is past their statement *)
LEMMA HoldsReleases ==
    ASSUME LockInv, NEW x \in Flushes, stage[x] \in PastReleases \/ want[x] = <<>>
    PROVE  \A i \in changed[x] : holder[<<"release", batch[x][i].release>>] = x
<1>1. \A l \in ReleaseSet(x) : Due(x, l)
  BY DEF LockInv, LocksAt, DueAt
<1>2. \A k \in DOMAIN want[x] : want[x][k][1] # "release"
  BY DEF LockInv, LocksAt, WantAt, KindOf, PastReleases
<1> QED BY <1>1, <1>2 DEF Due, ReleaseSet

LEMMA HoldsMedia ==
    ASSUME LockInv, NEW x \in Flushes, (stage[x] = "media" /\ want[x] = <<>>) \/ stage[x] = "edges"
    PROVE  \A l \in MediumSet(x) : holder[l] = x
<1>1. \A l \in MediumSet(x) : Due(x, l)
  BY DEF LockInv, LocksAt, DueAt, PastFamilies
<1>2. want[x] = <<>>
  BY DEF LockInv, LocksAt, WantAt
<1> QED BY <1>1, <1>2 DEF Due

LEMMA CommitHoldsReleases ==
    ASSUME LockInv, NEW x \in Flushes, Commit(x)
    PROVE  /\ want[x] = <<>>
           /\ \A i \in changed[x] : holder[<<"release", batch[x][i].release>>] = x
<1>1. want[x] = <<>>
  BY DEF Commit, LockInv, LocksAt, WantAt
<1> QED BY <1>1, HoldsReleases

(* A commit does not touch the releases that another flush has locked *)
LEMMA CommitSparesOthers ==
    ASSUME LockInv, NEW x \in Flushes, Commit(x), NEW y \in Flushes, y # x, stage[y] \in PastReleases
    PROVE  \A i \in changed[y] : release'[batch[y][i].release] = release[batch[y][i].release]
<1> SUFFICES ASSUME NEW i \in changed[y]
             PROVE  release'[batch[y][i].release] = release[batch[y][i].release]
  OBVIOUS
<1> DEFINE r == batch[y][i].release
<1>1. r \in Releases
  BY RowsAreDistinct DEF LockInv, TypeInv
<1>2. holder[<<"release", r>>] = y
  BY HoldsReleases
<1>3. \A j \in changed[x] : batch[x][j].release # r
  BY <1>2, CommitHoldsReleases
<1> HIDE DEF r
<1>4. release'[r] = release[r]
  BY <1>1, <1>3, CommittedRelease DEF LockInv
<1> QED BY <1>4 DEF r

LEMMA StepBegin ==
    ASSUME LockInv, NEW x \in Flushes, NEW b \in Batches, Begin(x, b)
    PROVE  LockInv'
<1> DEFINE rows == {i \in Rows(b) : b[i].release \in nodes /\ Changed(release[b[i].release], b[i])}
           q == ReleaseLocks(b, rows)
<1>1. /\ stage[x] = "idle" /\ stage' = [stage EXCEPT ![x] = "releases"]
      /\ batch' = [batch EXCEPT ![x] = b] /\ changed' = [changed EXCEPT ![x] = rows]
      /\ want' = [want EXCEPT ![x] = q]
      /\ UNCHANGED <<nodes, release, discogs, holder, pruned>>
  BY DEF Begin, Goto, graphVars, ReleaseLocks
<1>2. rows \subseteq Rows(b) /\ rows \subseteq Int
  BY RowsAreDistinct
<1> HIDE DEF rows
<1>3. /\ q \in Seq(Locks)
      /\ \A i \in rows : \E k \in DOMAIN q : q[k] = <<"release", b[i].release>>
      /\ \A k \in DOMAIN q : q[k][1] = "release"
  BY <1>2, ReleaseLocksRow
<1> HIDE DEF q
<1>4. TypeInv
  BY DEF LockInv
<1>5. /\ stage'[x] = "releases" /\ batch'[x] = b /\ changed'[x] = rows /\ want'[x] = q
      /\ \A y \in Flushes : y # x => /\ stage'[y] = stage[y] /\ batch'[y] = batch[y]
                                     /\ changed'[y] = changed[y] /\ want'[y] = want[y]
  BY <1>1, <1>4 DEF TypeInv
<1>6. TypeInv'
  <2>1. \A y \in Flushes : changed'[y] \subseteq Rows(batch'[y])
    BY <1>2, <1>4, <1>5 DEF TypeInv
  <2> QED BY <1>1, <1>2, <1>3, <1>4, <2>1 DEF TypeInv, Node
<1>7. LocksAt(x)'
  <2>1. \A l \in ReleaseSet(x)' : Due(x, l)'
    BY <1>3, <1>5 DEF ReleaseSet, Due
  <2>2. WantAt(x)'
    BY <1>1, <1>3, <1>5 DEF LockInv, LocksAt, WantAt, KindOf
  <2> QED BY <1>5, <2>1, <2>2 DEF LocksAt, DueAt, OrderAt, PastReleases, PastFamilies
<1>8. ASSUME NEW y \in Flushes, y # x PROVE LocksAt(y)'
  BY <1>1, <1>4, <1>5, <1>8, OtherFlush DEF LockInv
<1> QED BY <1>6, <1>7, <1>8 DEF LockInv

LEMMA StepAcquire ==
    ASSUME LockInv, NEW x \in Flushes, Acquire(x)
    PROVE  LockInv'
<1> DEFINE l0 == Head(want[x])
<1>1. TypeInv /\ LocksAt(x)
  BY DEF LockInv
<1>2. /\ want[x] # <<>> /\ want[x] \in Seq(Locks) /\ holder[l0] = nobody
      /\ holder' = [holder EXCEPT ![l0] = x] /\ want' = [want EXCEPT ![x] = Tail(want[x])]
      /\ UNCHANGED <<nodes, release, discogs, stage, batch, changed, pruned>>
  BY <1>1 DEF Acquire, graphVars, TypeInv
<1>3. /\ l0 \in Locks /\ l0 = want[x][1] /\ 1 \in DOMAIN want[x] /\ Tail(want[x]) \in Seq(Locks)
      /\ \A k \in DOMAIN Tail(want[x]) : k + 1 \in DOMAIN want[x] /\ Tail(want[x])[k] = want[x][k + 1] /\ k \in Nat \ {0}
      /\ \A k \in DOMAIN want[x] : k = 1 \/ (k - 1 \in DOMAIN Tail(want[x]) /\ Tail(want[x])[k - 1] = want[x][k])
  BY <1>2
<1> HIDE DEF l0
<1>4. /\ want'[x] = Tail(want[x]) /\ holder'[l0] = x
      /\ \A l \in Locks : l # l0 => holder'[l] = holder[l]
      /\ \A y \in Flushes : y # x => want'[y] = want[y]
  BY <1>1, <1>2, <1>3 DEF TypeInv
<1>5. TypeInv'
  BY <1>1, <1>2, <1>3, <1>4 DEF TypeInv, Node
<1>6. stage[x] \notin {"idle", "edges"} /\ l0[1] = KindOf(stage[x])
  BY <1>1, <1>2, <1>3 DEF LocksAt, WantAt
<1>7. ReleaseSet(x)' = ReleaseSet(x) /\ FamilySet(x)' = FamilySet(x) /\ MediumSet(x)' = MediumSet(x)
  BY <1>2, SameMedia DEF FamilySet, MediumSet
<1>8. ASSUME NEW l, Due(x, l) PROVE Due(x, l)'
  <2>1. CASE l = l0
    BY <1>4, <2>1 DEF Due
  <2>2. CASE l # l0 /\ holder[l] = x
    BY <1>1, <1>2, <2>2 DEF Due, TypeInv
  <2>3. ASSUME NEW k \in DOMAIN want[x], want[x][k] = l, l # l0 PROVE Due(x, l)'
    <3>1. k - 1 \in DOMAIN want'[x] /\ want'[x][k - 1] = l
      BY <1>3, <1>4, <2>3
    <3> QED BY <3>1 DEF Due
  <2> QED BY <1>8, <2>1, <2>2, <2>3 DEF Due
<1>9. DueAt(x)'
  BY <1>1, <1>2, <1>7, <1>8 DEF LocksAt, DueAt
<1>10. WantAt(x)'
  <2>1. \A k \in DOMAIN want'[x] : want'[x][k][1] = KindOf(stage'[x])
    BY <1>1, <1>2, <1>3, <1>4 DEF LocksAt, WantAt
  <2>2. ASSUME NEW l \in Locks, holder'[l] = x
        PROVE  /\ stage[x] # "idle"
               /\ l[1] = "family" => stage[x] \in PastReleases
               /\ l[1] = "medium" => stage[x] \in PastFamilies
    <3>1. CASE l = l0
      BY <1>6, <3>1, <1>1 DEF KindOf, PastReleases, PastFamilies, TypeInv
    <3>2. CASE l # l0
      BY <1>1, <1>4, <2>2, <3>2 DEF LocksAt, WantAt
    <3> QED BY <3>1, <3>2
  <2> QED BY <1>2, <1>6, <2>1, <2>2 DEF WantAt
<1>11. OrderAt(x)'
  <2> SUFFICES ASSUME stage[x] \in {"families", "media"}
               PROVE  /\ \A k \in DOMAIN want'[x] : \A l \in Locks :
                             holder'[l] = x /\ l[1] = KindOf(stage[x]) => l[2] < want'[x][k][2]
                      /\ \A j, k \in DOMAIN want'[x] : j < k => want'[x][j][2] < want'[x][k][2]
    BY <1>2 DEF OrderAt
  <2>1. /\ \A k \in DOMAIN want[x] : \A l \in Locks :
               holder[l] = x /\ l[1] = KindOf(stage[x]) => l[2] < want[x][k][2]
        /\ \A j, k \in DOMAIN want[x] : j < k => want[x][j][2] < want[x][k][2]
    BY <1>1 DEF LocksAt, OrderAt
  <2>2. ASSUME NEW k \in DOMAIN want'[x], NEW l \in Locks, holder'[l] = x, l[1] = KindOf(stage[x])
        PROVE  l[2] < want'[x][k][2]
    <3>1. k + 1 \in DOMAIN want[x] /\ want'[x][k] = want[x][k + 1] /\ 1 < k + 1
      BY <1>3, <1>4
    <3>2. CASE l = l0
      BY <1>3, <2>1, <3>1, <3>2
    <3>3. CASE l # l0
      BY <1>4, <2>1, <2>2, <3>1, <3>3
    <3> QED BY <3>2, <3>3
  <2>3. ASSUME NEW j \in DOMAIN want'[x], NEW k \in DOMAIN want'[x], j < k
        PROVE  want'[x][j][2] < want'[x][k][2]
    <3>1. /\ j + 1 \in DOMAIN want[x] /\ want'[x][j] = want[x][j + 1]
          /\ k + 1 \in DOMAIN want[x] /\ want'[x][k] = want[x][k + 1]
          /\ j + 1 < k + 1
      BY <1>3, <1>4, <2>3
    <3> QED BY <2>1, <3>1
  <2> QED BY <2>2, <2>3
<1>12. ASSUME NEW y \in Flushes, y # x PROVE LocksAt(y)'
  <2>1. \A l \in Locks : holder'[l] = y <=> holder[l] = y
    BY <1>2, <1>4, <1>12, GateAssumption
  <2> QED BY <1>1, <1>2, <1>4, <1>12, <2>1, OtherFlush DEF LockInv
<1> QED BY <1>5, <1>9, <1>10, <1>11, <1>12 DEF LockInv, LocksAt

LEMMA StepLockFamilies ==
    ASSUME LockInv, NEW x \in Flushes, LockFamilies(x)
    PROVE  LockInv'
<1> DEFINE q == FamilyLocks(x)
<1>1. TypeInv /\ LocksAt(x)
  BY DEF LockInv
<1>2. /\ stage[x] = "releases" /\ want[x] = <<>>
      /\ stage' = [stage EXCEPT ![x] = "families"] /\ want' = [want EXCEPT ![x] = q]
      /\ UNCHANGED <<nodes, release, discogs, batch, changed, holder, pruned>>
  BY DEF LockFamilies, Goto, graphVars
<1>3. /\ q \in Seq(Locks)
      /\ \A l \in FamilySet(x) : \E k \in DOMAIN q : q[k] = l
      /\ \A k \in DOMAIN q : q[k][1] = "family"
      /\ \A j, k \in DOMAIN q : j < k => q[j][2] < q[k][2]
  BY <1>1, FamilyLocksRow
<1> HIDE DEF q
<1>4. /\ stage'[x] = "families" /\ want'[x] = q
      /\ \A y \in Flushes : y # x => stage'[y] = stage[y] /\ want'[y] = want[y]
  BY <1>1, <1>2 DEF TypeInv
<1>5. TypeInv'
  BY <1>1, <1>2, <1>3 DEF TypeInv, Node
<1>6. ReleaseSet(x)' = ReleaseSet(x) /\ FamilySet(x)' = FamilySet(x)
  BY <1>2, SameMedia DEF FamilySet
<1>7. DueAt(x)'
  <2>1. \A l \in ReleaseSet(x)' : Due(x, l)'
    BY <1>1, <1>2, <1>6 DEF LocksAt, DueAt, Due
  <2>2. \A l \in FamilySet(x)' : Due(x, l)'
    BY <1>3, <1>4, <1>6 DEF Due
  <2> QED BY <1>4, <2>1, <2>2 DEF DueAt, PastFamilies
<1>8. WantAt(x)'
  BY <1>1, <1>2, <1>3, <1>4 DEF LocksAt, WantAt, KindOf, PastReleases, PastFamilies
<1>9. OrderAt(x)'
  <2>1. \A l \in Locks : holder'[l] = x => l[1] # "family"
    BY <1>1, <1>2 DEF LocksAt, WantAt, PastReleases
  <2> QED BY <1>3, <1>4, <2>1 DEF OrderAt, KindOf
<1>10. ASSUME NEW y \in Flushes, y # x PROVE LocksAt(y)'
  BY <1>1, <1>2, <1>4, <1>10, OtherFlush DEF LockInv
<1> QED BY <1>5, <1>7, <1>8, <1>9, <1>10 DEF LockInv, LocksAt

LEMMA StepLockMedia ==
    ASSUME LockInv, NEW x \in Flushes, LockMedia(x)
    PROVE  LockInv'
<1> DEFINE q == MediumLocks(x)
<1>1. TypeInv /\ LocksAt(x)
  BY DEF LockInv
<1>2. /\ stage[x] = "families" /\ want[x] = <<>>
      /\ stage' = [stage EXCEPT ![x] = "media"] /\ want' = [want EXCEPT ![x] = q]
      /\ UNCHANGED <<nodes, release, discogs, batch, changed, holder, pruned>>
  BY DEF LockMedia, Goto, graphVars
<1>3. /\ q \in Seq(Locks)
      /\ \A l \in MediumSet(x) : \E k \in DOMAIN q : q[k] = l
      /\ \A k \in DOMAIN q : q[k][1] = "medium"
      /\ \A j, k \in DOMAIN q : j < k => q[j][2] < q[k][2]
  BY <1>1, MediumLocksRow
<1> HIDE DEF q
<1>4. /\ stage'[x] = "media" /\ want'[x] = q
      /\ \A y \in Flushes : y # x => stage'[y] = stage[y] /\ want'[y] = want[y]
  BY <1>1, <1>2 DEF TypeInv
<1>5. TypeInv'
  BY <1>1, <1>2, <1>3 DEF TypeInv, Node
<1>6. ReleaseSet(x)' = ReleaseSet(x) /\ FamilySet(x)' = FamilySet(x) /\ MediumSet(x)' = MediumSet(x)
  BY <1>2, SameMedia DEF FamilySet, MediumSet
<1>7. DueAt(x)'
  <2>1. \A l \in ReleaseSet(x)' \cup FamilySet(x)' : Due(x, l)'
    BY <1>1, <1>2, <1>6 DEF LocksAt, DueAt, Due, PastReleases
  <2>2. \A l \in MediumSet(x)' : Due(x, l)'
    BY <1>3, <1>4, <1>6 DEF Due
  <2> QED BY <2>1, <2>2 DEF DueAt
<1>8. WantAt(x)'
  BY <1>1, <1>2, <1>3, <1>4 DEF LocksAt, WantAt, KindOf, PastReleases, PastFamilies
<1>9. OrderAt(x)'
  <2>1. \A l \in Locks : holder'[l] = x => l[1] # "medium"
    BY <1>1, <1>2 DEF LocksAt, WantAt, PastFamilies
  <2> QED BY <1>3, <1>4, <2>1 DEF OrderAt, KindOf
<1>10. ASSUME NEW y \in Flushes, y # x PROVE LocksAt(y)'
  BY <1>1, <1>2, <1>4, <1>10, OtherFlush DEF LockInv
<1> QED BY <1>5, <1>7, <1>8, <1>9, <1>10 DEF LockInv, LocksAt

LEMMA StepSweep ==
    ASSUME LockInv, NEW x \in Flushes, Sweep(x)
    PROVE  LockInv'
<1>1. TypeInv /\ LocksAt(x)
  BY DEF LockInv
<1>2. /\ stage[x] = "media" /\ want[x] = <<>>
      /\ stage' = [stage EXCEPT ![x] = "edges"] /\ pruned' = [pruned EXCEPT ![x] = Orphans(x)]
      /\ UNCHANGED <<nodes, release, discogs, batch, changed, want, holder>>
  BY DEF Sweep, Goto, graphVars
<1>3. /\ stage'[x] = "edges"
      /\ \A y \in Flushes : y # x => stage'[y] = stage[y]
  BY <1>1, <1>2 DEF TypeInv
<1>4. Orphans(x) \subseteq Media
  <2>1. StaleEdges(x) \subseteq Releases \X Media
    BY <1>1, MediaOfFlush
  <2> QED BY <2>1 DEF Orphans
<1>5. TypeInv'
  <2>1. pruned' \in [Flushes -> SUBSET Media]
    BY <1>1, <1>2, <1>4 DEF TypeInv
  <2> QED BY <1>1, <1>2, <2>1 DEF TypeInv, Node
<1>6. ReleaseSet(x)' = ReleaseSet(x) /\ FamilySet(x)' = FamilySet(x) /\ MediumSet(x)' = MediumSet(x)
  BY <1>2, SameMedia DEF FamilySet, MediumSet
<1>7. DueAt(x)'
  BY <1>1, <1>2, <1>6 DEF LocksAt, DueAt, Due, PastReleases, PastFamilies
<1>8. WantAt(x)'
  BY <1>1, <1>2, <1>3 DEF LocksAt, WantAt, KindOf, PastReleases, PastFamilies
<1>9. OrderAt(x)'
  BY <1>3 DEF OrderAt
<1>10. ASSUME NEW y \in Flushes, y # x PROVE LocksAt(y)'
  BY <1>1, <1>2, <1>3, <1>10, OtherFlush DEF LockInv
<1> QED BY <1>5, <1>7, <1>8, <1>9, <1>10 DEF LockInv, LocksAt

(* The end of a transaction gives its locks back *)
LEMMA StepLeave ==
    ASSUME LockInv, NEW x \in Flushes, Leave(x), UNCHANGED <<nodes, discogs>>,
           \A r \in Releases : Node(release'[r]) /\ DOMAIN release'[r].issued \subseteq Media,
           \A y \in Flushes : y # x /\ stage[y] \in PastReleases =>
               \A i \in changed[y] : release'[batch[y][i].release] = release[batch[y][i].release]
    PROVE  LockInv'
<1>1. TypeInv /\ LocksAt(x)
  BY DEF LockInv
<1>2. /\ stage' = [stage EXCEPT ![x] = "idle"] /\ batch' = [batch EXCEPT ![x] = <<>>]
      /\ changed' = [changed EXCEPT ![x] = {}] /\ want' = [want EXCEPT ![x] = <<>>]
      /\ pruned' = [pruned EXCEPT ![x] = {}]
      /\ holder' = [l \in Locks |-> IF holder[l] = x THEN nobody ELSE holder[l]]
  BY DEF Leave, Goto
<1>3. /\ stage'[x] = "idle" /\ batch'[x] = <<>> /\ changed'[x] = {} /\ want'[x] = <<>>
      /\ \A l \in Locks : holder'[l] # x
      /\ \A y \in Flushes : y # x => /\ stage'[y] = stage[y] /\ batch'[y] = batch[y]
                                     /\ changed'[y] = changed[y] /\ want'[y] = want[y]
                                     /\ \A l \in Locks : holder'[l] = y <=> holder[l] = y
  BY <1>1, <1>2, GateAssumption DEF TypeInv
<1>4. TypeInv'
  <2>1. holder' \in [Locks -> Flushes \cup {nobody}]
    BY <1>1, <1>2 DEF TypeInv
  <2>2. \A y \in Flushes : changed'[y] \subseteq Rows(batch'[y])
    BY <1>1, <1>3 DEF TypeInv
  <2>3. /\ stage' \in [Flushes -> {"idle", "releases", "families", "media", "edges"}]
        /\ batch' \in [Flushes -> Batches \cup {<<>>}]
        /\ changed' \in [Flushes -> SUBSET Int]
        /\ want' \in [Flushes -> Seq(Locks)]
        /\ pruned' \in [Flushes -> SUBSET Media]
    BY <1>1, <1>2 DEF TypeInv
  <2> QED BY <1>1, <2>1, <2>2, <2>3 DEF TypeInv, Node
<1>5. LocksAt(x)'
  BY <1>3 DEF LocksAt, DueAt, WantAt, OrderAt, ReleaseSet, PastReleases, PastFamilies
<1>6. ASSUME NEW y \in Flushes, y # x PROVE LocksAt(y)'
  BY <1>1, <1>3, <1>6, OtherFlush DEF LockInv
<1> QED BY <1>4, <1>5, <1>6 DEF LockInv

LEMMA StepCommit ==
    ASSUME LockInv, NEW x \in Flushes, Commit(x)
    PROVE  LockInv'
<1>1. ASSUME NEW r \in Releases PROVE Node(release'[r]) /\ DOMAIN release'[r].issued \subseteq Media
  <2>1. Node(release[r]) /\ DOMAIN release[r].issued \subseteq Media
    BY DEF LockInv, TypeInv
  <2>2. CASE release'[r] = release[r]
    BY <2>1, <2>2 DEF Node
  <2>3. ASSUME NEW rec, release'[r] = Written(release[r], rec)
        PROVE  Node(release'[r]) /\ DOMAIN release'[r].issued \subseteq Media
    <3>1. MediumIds(rec.items) \subseteq Media
      BY DEF MediumIds
    <3> QED BY <2>1, <2>3, <3>1, WrittenIssued, WrittenTruthful
  <2> QED BY <2>2, <2>3, CommittedRelease DEF LockInv
<1>2. Leave(x) /\ UNCHANGED <<nodes, discogs>>
  BY DEF Commit
<1>3. \A y \in Flushes : y # x /\ stage[y] \in PastReleases =>
          \A i \in changed[y] : release'[batch[y][i].release] = release[batch[y][i].release]
  BY CommitSparesOthers
<1> QED BY <1>1, <1>2, <1>3, StepLeave

LEMMA StepLocks ==
    ASSUME LockInv, [Next]_vars
    PROVE  LockInv'
<1>1. CASE UNCHANGED <<release, flushVars>> /\ nodes' \subseteq Releases /\ discogs' \subseteq DiscogsEdges
  <2>1. TypeInv'
    BY <1>1 DEF LockInv, TypeInv, Node, flushVars
  <2>2. ASSUME NEW y \in Flushes PROVE LocksAt(y)'
    BY <1>1, OtherFlush DEF LockInv, flushVars
  <2> QED BY <2>1, <2>2 DEF LockInv
<1>2. ASSUME NEW x \in Flushes, Abort(x) PROVE LockInv'
  BY <1>2, StepLeave DEF Abort, LockInv, TypeInv, graphVars, Node
<1>3. nodes \subseteq Releases /\ discogs \subseteq DiscogsEdges
  BY DEF LockInv, TypeInv
<1>4. ASSUME NEW r \in Releases, AddRelease(r) PROVE LockInv'
  BY <1>1, <1>3, <1>4 DEF AddRelease
<1>5. ASSUME NEW e \in DiscogsEdges, Attach(e[1], e[2]) \/ Detach(e[1], e[2]) PROVE LockInv'
  <2>1. e = <<e[1], e[2]>>
    BY DiscogsAssumption
  <2> QED BY <1>1, <1>3, <1>5, <2>1 DEF Attach, Detach
<1>6. CASE UNCHANGED vars
  BY <1>1, <1>3, <1>6 DEF vars, graphVars
<1> QED BY <1>2, <1>4, <1>5, <1>6, StepBegin, StepAcquire, StepLockFamilies, StepLockMedia, StepSweep, StepCommit DEF Next

-----------------------------------------------------------------------------
(* The vocabulary. *)

(* The media of the edges that a flush takes away or puts in are locked by it *)
LEMMA LocksItsMedia ==
    ASSUME LockInv, NEW x \in Flushes, (stage[x] = "media" /\ want[x] = <<>>) \/ stage[x] = "edges"
    PROVE  /\ \A m \in Attached(x) : holder[<<"medium", m>>] = x
           /\ \A e \in StaleEdges(x) : holder[<<"medium", e[2]>>] = x
BY HoldsMedia DEF MediumSet

(* Only a flush that is past its sweep changes the media of a release *)
LEMMA CommitStage ==
    ASSUME LockInv, NEW x \in Flushes, Commit(x), stage[x] # "edges", NEW r \in Releases
    PROVE  DOMAIN release'[r].issued = DOMAIN release[r].issued
<1>1. Summaries(x) = {}
  BY DEF Commit
<1>2. ASSUME NEW i \in changed[x], release'[r] = Written(release[r], batch[x][i])
      PROVE  DOMAIN release'[r].issued = DOMAIN release[r].issued
  <2>1. batch[x][i].items = NoBlock
    BY <1>1 DEF Summaries
  <2>2. Node(release[r])
    BY DEF LockInv, TypeInv
  <2> QED BY <1>2, <2>1, <2>2, WrittenIssued
<1> QED BY <1>2, CommittedRelease DEF LockInv

(* How a commit past its sweep changes the edges of a release to a medium *)
LEMMA CommitEdges ==
    ASSUME LockInv, NEW x \in Flushes, Commit(x), NEW r \in Releases, NEW m \in Media
    PROVE  /\ m \in DOMAIN release'[r].issued /\ m \notin DOMAIN release[r].issued =>
                  stage[x] = "edges" /\ m \in Attached(x)
           /\ m \in DOMAIN release[r].issued /\ m \notin DOMAIN release'[r].issued =>
                  stage[x] = "edges" /\ <<r, m>> \in StaleEdges(x)
           /\ stage[x] = "edges" /\ <<r, m>> \in StaleEdges(x) => m \notin DOMAIN release'[r].issued
<1>1. CASE stage[x] # "edges"
  BY <1>1, CommitStage
<1>2. ASSUME stage[x] = "edges", NEW i \in changed[x], batch[x][i].release = r,
             release'[r] = Written(release[r], batch[x][i]), batch[x][i].items # NoBlock
      PROVE  /\ m \in DOMAIN release'[r].issued => m \in Attached(x)
             /\ m \in DOMAIN release[r].issued /\ m \notin DOMAIN release'[r].issued => <<r, m>> \in StaleEdges(x)
             /\ <<r, m>> \in StaleEdges(x) => m \notin DOMAIN release'[r].issued
  <2>1. i \in Summaries(x)
    BY <1>2 DEF Summaries
  <2>2. DOMAIN release'[r].issued = MediumIds(batch[x][i].items)
    BY <1>2, WrittenIssued DEF LockInv, TypeInv
  <2>3. m \in DOMAIN release'[r].issued => m \in Attached(x)
    BY <2>1, <2>2 DEF Attached
  <2>4. m \in DOMAIN release[r].issued /\ m \notin DOMAIN release'[r].issued => <<r, m>> \in StaleEdges(x)
    BY <1>2, <2>1, <2>2 DEF StaleEdges
  <2>5. ASSUME <<r, m>> \in StaleEdges(x) PROVE m \notin DOMAIN release'[r].issued
    <3>1. PICK j \in Summaries(x) :
              <<r, m>> \in {batch[x][j].release} \X
                           (DOMAIN release[batch[x][j].release].issued \ MediumIds(batch[x][j].items))
      BY <2>5 DEF StaleEdges
    <3>2. j \in changed[x] /\ batch[x][j].release = r
      BY <3>1 DEF Summaries
    <3>3. j = i
      <4>1. changed[x] \subseteq Rows(batch[x]) /\ batch[x] \in Batches \cup {<<>>}
        BY DEF LockInv, TypeInv
      <4>2. i \in Rows(batch[x]) /\ j \in Rows(batch[x]) /\ batch[x][i].release = batch[x][j].release
        BY <1>2, <3>2, <4>1
      <4> QED BY <4>1, <4>2, RowsAreDistinct
    <3> QED BY <2>2, <3>1, <3>3
  <2> QED BY <2>3, <2>4, <2>5
<1>3. ASSUME stage[x] = "edges", DOMAIN release'[r].issued = DOMAIN release[r].issued,
             \A i \in changed[x] : batch[x][i].release = r => batch[x][i].items = NoBlock
      PROVE  <<r, m>> \notin StaleEdges(x)
  BY <1>3 DEF StaleEdges, Summaries
<1>4. CASE stage[x] = "edges"
  <2>1. ASSUME NEW i \in changed[x], batch[x][i].release = r, batch[x][i].items = NoBlock,
               release'[r] = Written(release[r], batch[x][i])
        PROVE  /\ DOMAIN release'[r].issued = DOMAIN release[r].issued
               /\ \A j \in changed[x] : batch[x][j].release = r => batch[x][j].items = NoBlock
    <3>1. DOMAIN release'[r].issued = DOMAIN release[r].issued
      BY <2>1, WrittenIssued DEF LockInv, TypeInv
    <3>2. \A j \in changed[x] : batch[x][j].release = r => j = i
      BY <2>1, RowsAreDistinct DEF LockInv, TypeInv
    <3> QED BY <2>1, <3>1, <3>2
  <2>2. ASSUME release'[r] = release[r], \A i \in changed[x] : batch[x][i].release # r
        PROVE  /\ DOMAIN release'[r].issued = DOMAIN release[r].issued
               /\ \A j \in changed[x] : batch[x][j].release = r => batch[x][j].items = NoBlock
    BY <2>2
  <2>3. CASE \E i \in changed[x] : /\ batch[x][i].release = r /\ batch[x][i].items # NoBlock
                                   /\ release'[r] = Written(release[r], batch[x][i])
    BY <1>2, <1>4, <2>3
  <2>4. CASE /\ DOMAIN release'[r].issued = DOMAIN release[r].issued
             /\ \A j \in changed[x] : batch[x][j].release = r => batch[x][j].items = NoBlock
    BY <1>3, <1>4, <2>4
  <2> QED BY <2>1, <2>2, <2>3, <2>4, CommittedRelease DEF LockInv
<1> QED BY <1>1, <1>4

(* The orphans of a flush that has swept stay so: who could attach or detach them needs its locks *)
LEMMA SameOrphans ==
    ASSUME NEW y \in Flushes, TypeInv, StaleEdges(y)' = StaleEdges(y),
           \A s \in StaleEdges(y) : \A r \in Releases :
               /\ s[2] \in DOMAIN release'[r].issued <=> s[2] \in DOMAIN release[r].issued
               /\ <<r, s[2]>> \in discogs' <=> <<r, s[2]>> \in discogs
    PROVE  Orphans(y)' = Orphans(y)
BY DEF Orphans

LEMMA StepPruned ==
    ASSUME LockInv, PrunedInv, [Next]_vars
    PROVE  PrunedInv'
<1>1. TypeInv
  BY DEF LockInv
<1>2. ASSUME NEW y \in Flushes, UNCHANGED <<release, discogs>>, batch'[y] = batch[y], changed'[y] = changed[y]
      PROVE  Orphans(y)' = Orphans(y)
  BY <1>1, <1>2, SameMedia, SameOrphans
<1>3. ASSUME NEW y \in Flushes, UNCHANGED <<release, discogs>>, batch'[y] = batch[y], changed'[y] = changed[y],
             pruned'[y] = pruned[y], (stage'[y] = "edges") <=> (stage[y] = "edges")
      PROVE  pruned'[y] = IF stage'[y] = "edges" THEN Orphans(y)' ELSE {}
  BY <1>2, <1>3 DEF PrunedInv
<1>4. ASSUME NEW x \in Flushes, Leave(x), NEW y \in Flushes,
             y # x /\ stage[y] = "edges" => Orphans(y)' = Orphans(y)
      PROVE  pruned'[y] = IF stage'[y] = "edges" THEN Orphans(y)' ELSE {}
  <2>1. CASE y = x
    <3>1. stage'[x] = "idle" /\ pruned'[x] = {}
      BY <1>1, <1>4 DEF Leave, Goto, TypeInv
    <3> QED BY <2>1, <3>1
  <2>2. CASE y # x
    <3>1. stage'[y] = stage[y] /\ pruned'[y] = pruned[y]
      BY <1>1, <1>4, <2>2 DEF Leave, Goto, TypeInv
    <3> QED BY <1>4, <2>2, <3>1 DEF PrunedInv
  <2> QED BY <2>1, <2>2
<1>5. ASSUME NEW x \in Flushes, NEW b \in Batches, Begin(x, b) PROVE PrunedInv'
  <2> SUFFICES ASSUME NEW y \in Flushes PROVE pruned'[y] = IF stage'[y] = "edges" THEN Orphans(y)' ELSE {}
    BY DEF PrunedInv
  <2>1. pruned' = pruned /\ UNCHANGED <<release, discogs>>
    BY <1>5 DEF Begin, graphVars
  <2>2. CASE y = x
    <3>1. stage[x] = "idle" /\ stage'[x] = "releases"
      BY <1>1, <1>5 DEF Begin, Goto, TypeInv
    <3> QED BY <2>1, <2>2, <3>1 DEF PrunedInv
  <2>3. CASE y # x
    <3>1. stage'[y] = stage[y] /\ batch'[y] = batch[y] /\ changed'[y] = changed[y]
      BY <1>1, <1>5, <2>3 DEF Begin, Goto, TypeInv
    <3> QED BY <1>3, <2>1, <3>1
  <2> QED BY <2>2, <2>3
<1>6. ASSUME NEW x \in Flushes, Acquire(x) \/ LockFamilies(x) \/ LockMedia(x) PROVE PrunedInv'
  <2> SUFFICES ASSUME NEW y \in Flushes PROVE pruned'[y] = IF stage'[y] = "edges" THEN Orphans(y)' ELSE {}
    BY DEF PrunedInv
  <2>1. UNCHANGED <<release, discogs, batch, changed, pruned>> /\ (stage'[y] = "edges" <=> stage[y] = "edges")
    BY <1>1, <1>6 DEF Acquire, LockFamilies, LockMedia, Goto, graphVars, TypeInv
  <2> QED BY <1>3, <2>1
<1>7. ASSUME NEW x \in Flushes, Sweep(x) PROVE PrunedInv'
  <2> SUFFICES ASSUME NEW y \in Flushes PROVE pruned'[y] = IF stage'[y] = "edges" THEN Orphans(y)' ELSE {}
    BY DEF PrunedInv
  <2>1. UNCHANGED <<release, discogs, batch, changed>>
    BY <1>7 DEF Sweep, graphVars
  <2>2. CASE y = x
    <3>1. stage'[x] = "edges" /\ pruned'[x] = Orphans(x)
      BY <1>1, <1>7 DEF Sweep, Goto, TypeInv
    <3> QED BY <1>2, <2>1, <2>2, <3>1
  <2>3. CASE y # x
    <3>1. stage'[y] = stage[y] /\ pruned'[y] = pruned[y]
      BY <1>1, <1>7, <2>3 DEF Sweep, Goto, TypeInv
    <3> QED BY <1>3, <2>1, <3>1
  <2> QED BY <2>2, <2>3
<1>8. ASSUME NEW x \in Flushes, Abort(x) PROVE PrunedInv'
  <2> SUFFICES ASSUME NEW y \in Flushes PROVE pruned'[y] = IF stage'[y] = "edges" THEN Orphans(y)' ELSE {}
    BY DEF PrunedInv
  <2>1. Leave(x) /\ UNCHANGED <<release, discogs>>
    BY <1>8 DEF Abort, graphVars
  <2>2. y # x => batch'[y] = batch[y] /\ changed'[y] = changed[y]
    BY <1>1, <2>1 DEF Leave, TypeInv
  <2> QED BY <1>2, <1>4, <2>1, <2>2
<1>9. ASSUME NEW x \in Flushes, Commit(x) PROVE PrunedInv'
  <2> SUFFICES ASSUME NEW y \in Flushes PROVE pruned'[y] = IF stage'[y] = "edges" THEN Orphans(y)' ELSE {}
    BY DEF PrunedInv
  <2>1. Leave(x) /\ discogs' = discogs
    BY <1>9 DEF Commit
  <2>2. ASSUME y # x, stage[y] = "edges" PROVE Orphans(y)' = Orphans(y)
    <3>1. batch'[y] = batch[y] /\ changed'[y] = changed[y]
      BY <1>1, <2>1, <2>2 DEF Leave, TypeInv
    <3>2. StaleEdges(y)' = StaleEdges(y)
      BY <1>9, <2>2, <3>1, CommitSparesOthers, SameMedia DEF PastReleases
    <3>3. ASSUME NEW s \in StaleEdges(y), NEW r \in Releases
          PROVE  s[2] \in DOMAIN release'[r].issued <=> s[2] \in DOMAIN release[r].issued
      <4>1. s[2] \in Media /\ holder[<<"medium", s[2]>>] = y
        BY <1>1, <2>2, LocksItsMedia, MediaOfFlush
      <4>2. stage[x] = "edges" => s[2] \notin Attached(x) /\ \A e \in StaleEdges(x) : e[2] # s[2]
        BY <2>2, <4>1, LocksItsMedia
      <4>3. stage[x] = "edges" => <<r, s[2]>> \notin StaleEdges(x)
        BY <4>2
      <4> QED BY <1>9, <4>1, <4>2, <4>3, CommitEdges
    <3> QED BY <1>1, <2>1, <3>2, <3>3, SameOrphans
  <2> QED BY <1>4, <2>1, <2>2
<1>10. ASSUME UNCHANGED <<release, flushVars>>, NEW m \in Media, holder[<<"medium", m>>] = nobody,
              \A r \in Releases : \A n \in Media : n # m => (<<r, n>> \in discogs' <=> <<r, n>> \in discogs)
       PROVE  PrunedInv'
  <2> SUFFICES ASSUME NEW y \in Flushes PROVE pruned'[y] = IF stage'[y] = "edges" THEN Orphans(y)' ELSE {}
    BY DEF PrunedInv
  <2>1. UNCHANGED <<stage, pruned, batch, changed>>
    BY <1>10 DEF flushVars
  <2>2. ASSUME stage[y] = "edges" PROVE Orphans(y)' = Orphans(y)
    <3>1. StaleEdges(y)' = StaleEdges(y)
      BY <1>10, <2>1, SameMedia
    <3>2. \A s \in StaleEdges(y) : s[2] \in Media /\ s[2] # m
      <4>1. \A s \in StaleEdges(y) : s[2] \in Media
        BY <1>1, MediaOfFlush
      <4>2. \A s \in StaleEdges(y) : holder[<<"medium", s[2]>>] # nobody
        BY <2>2, LocksItsMedia, GateAssumption
      <4> QED BY <1>10, <4>1, <4>2
    <3> QED BY <1>1, <1>10, <3>1, <3>2, SameOrphans
  <2> QED BY <2>1, <2>2 DEF PrunedInv
<1>11. ASSUME UNCHANGED <<release, discogs, flushVars>> PROVE PrunedInv'
  BY <1>3, <1>11 DEF PrunedInv, flushVars
<1>12. ASSUME NEW e \in DiscogsEdges, Attach(e[1], e[2]) \/ Detach(e[1], e[2]) PROVE PrunedInv'
  <2>1. e[2] \in Media
    BY DiscogsAssumption
  <2>2. /\ UNCHANGED <<release, flushVars>> /\ holder[<<"medium", e[2]>>] = nobody
        /\ discogs' = discogs \cup {<<e[1], e[2]>>} \/ discogs' = discogs \ {<<e[1], e[2]>>}
    BY <1>12 DEF Attach, Detach
  <2>3. \A r \in Releases : \A n \in Media : n # e[2] => (<<r, n>> \in discogs' <=> <<r, n>> \in discogs)
    BY <2>2
  <2> QED BY <1>10, <2>1, <2>2, <2>3
<1>13. ASSUME NEW r \in Releases, AddRelease(r) PROVE PrunedInv'
  BY <1>11, <1>13 DEF AddRelease
<1>14. CASE UNCHANGED vars
  BY <1>11, <1>14 DEF vars, graphVars
<1> QED BY <1>5, <1>6, <1>7, <1>8, <1>9, <1>12, <1>13, <1>14 DEF Next

LEMMA StepDangling ==
    ASSUME MediaInv, [Next]_vars
    PROVE  NoDanglingEdge'
<1>1. /\ LockInv /\ TypeInv /\ PrunedInv
      /\ \A r \in Releases : DOMAIN release[r].issued \subseteq media
      /\ \A e \in discogs : e[2] \in media
  BY DEF MediaInv, LockInv, NoDanglingEdge
<1>2. CASE UNCHANGED <<release, media, discogs>>
  BY <1>1, <1>2 DEF NoDanglingEdge
<1>3. ASSUME NEW x \in Flushes, Commit(x) PROVE NoDanglingEdge'
  <2>1. media' = (media \ pruned[x]) \cup Attached(x) /\ discogs' = discogs
    BY <1>3 DEF Commit
  <2>2. ASSUME NEW r \in Releases, NEW m \in DOMAIN release'[r].issued PROVE m \in media'
    <3>1. m \in Media
      BY <1>1, <1>3, StepCommit DEF LockInv, TypeInv
    <3>2. CASE m \notin DOMAIN release[r].issued
      BY <1>1, <1>3, <2>1, <2>2, <3>1, <3>2, CommitEdges
    <3>3. CASE m \in DOMAIN release[r].issued
      <4>1. m \notin pruned[x]
        <5> SUFFICES ASSUME m \in pruned[x] PROVE FALSE
          OBVIOUS
        <5>1. stage[x] = "edges" /\ m \in Orphans(x)
          BY <1>1 DEF PrunedInv
        <5>2. <<r, m>> \in StaleEdges(x)
          BY <3>3, <5>1 DEF Orphans
        <5> QED BY <1>1, <1>3, <2>2, <3>1, <5>1, <5>2, CommitEdges
      <4> QED BY <1>1, <2>1, <3>3, <4>1
    <3> QED BY <3>2, <3>3
  <2>3. ASSUME NEW e \in discogs PROVE e[2] \in media'
    <3>1. e[1] \in Releases /\ e = <<e[1], e[2]>>
      BY <1>1, DiscogsAssumption DEF TypeInv
    <3>2. e[2] \notin pruned[x]
      <4> SUFFICES ASSUME e[2] \in pruned[x] PROVE FALSE
        OBVIOUS
      <4>1. e[2] \in Orphans(x)
        BY <1>1 DEF PrunedInv
      <4>2. <<e[1], e[2]>> \notin discogs
        BY <3>1, <4>1 DEF Orphans
      <4> QED BY <3>1, <4>2
    <3> QED BY <1>1, <2>1, <3>2
  <2> QED BY <2>1, <2>2, <2>3 DEF NoDanglingEdge
<1>4. ASSUME NEW e \in DiscogsEdges, Attach(e[1], e[2]) \/ Detach(e[1], e[2]) PROVE NoDanglingEdge'
  BY <1>1, <1>4 DEF Attach, Detach, NoDanglingEdge
<1>5. \/ UNCHANGED <<release, media, discogs>>
      \/ \E x \in Flushes : Commit(x)
      \/ \E e \in DiscogsEdges : Attach(e[1], e[2]) \/ Detach(e[1], e[2])
  BY DEF Next, vars, graphVars, Begin, Acquire, LockFamilies, LockMedia, Sweep, Abort, AddRelease
<1> QED BY <1>2, <1>3, <1>4, <1>5

LEMMA InitMedia == Init => MediaInv
<1> DEFINE empty == [mb_hash |-> NoHash, families |-> {}, medium_count |-> 0, issued |-> <<>>]
<1>1. Node(empty) /\ DOMAIN empty.issued = {}
  BY DEF Node
<1>2. Init => TypeInv
  <2> SUFFICES ASSUME Init PROVE TypeInv
    OBVIOUS
  <2>1. \A r \in Releases : release[r] = empty
    BY DEF Init
  <2>2. \A x \in Flushes : changed[x] \subseteq Rows(batch[x])
    BY DEF Init
  <2> QED BY <1>1, <2>1, <2>2 DEF Init, TypeInv
<1>3. Init => \A x \in Flushes : LocksAt(x)
  BY GateAssumption DEF Init, LocksAt, DueAt, WantAt, OrderAt, ReleaseSet, PastReleases, PastFamilies
<1>4. Init => NoDanglingEdge
  <2> SUFFICES ASSUME Init PROVE NoDanglingEdge
    OBVIOUS
  <2>1. \A r \in Releases : release[r] = empty
    BY DEF Init
  <2> QED BY <1>1, <2>1 DEF Init, NoDanglingEdge
<1>5. Init => PrunedInv
  BY DEF Init, PrunedInv
<1> QED BY <1>2, <1>3, <1>4, <1>5 DEF MediaInv, LockInv

LEMMA MediaInvariant == Spec => []MediaInv
<1>1. MediaInv /\ [Next]_vars => MediaInv'
  BY StepLocks, StepPruned, StepDangling DEF MediaInv
<1> QED BY <1>1, InitMedia, PTL DEF Spec

(***************************************************************************)
(* No edge loses its medium: what a flush prunes has no other edge when    *)
(* its stale sweep finds it, and the lock on the medium keeps it so until  *)
(* the commit (PRUNE_ORPHAN_MEDIUM, LOCK_MEDIA_MEDIUMS_CYPHER).            *)
(***************************************************************************)
THEOREM NoEdgeDangles == Spec => []NoDanglingEdge
<1>1. MediaInv => NoDanglingEdge
  BY DEF MediaInv
<1> QED BY <1>1, MediaInvariant, PTL

(***************************************************************************)
(* A flush that takes the last edge of a medium away takes the medium too: *)
(* by the locks, the edges of its stale media are its own to count.        *)
(***************************************************************************)
THEOREM LastEdgeTakesMedium == Spec => NoOrphanLeft
<1> DEFINE Kept == \A m \in Media : HasEdge(m) /\ ~HasEdge(m)' /\ UNCHANGED discogs => m \notin media'
<1>1. ASSUME MediaInv, [Next]_vars PROVE Kept
  <2> SUFFICES ASSUME NEW m \in Media, HasEdge(m), ~HasEdge(m)', UNCHANGED discogs PROVE m \notin media'
    OBVIOUS
  <2>1. LockInv /\ PrunedInv
    BY <1>1 DEF MediaInv
  <2>2. PICK r \in Releases : m \in DOMAIN release[r].issued /\ m \notin DOMAIN release'[r].issued
    BY DEF HasEdge
  <2>3. UNCHANGED release \/ \E x \in Flushes : Commit(x)
    BY <1>1 DEF Next, vars, graphVars, flushVars, Begin, Acquire, LockFamilies, LockMedia, Sweep, Abort,
                AddRelease, Attach, Detach
  <2>4. PICK x \in Flushes : Commit(x)
    BY <2>2, <2>3
  <2>5. stage[x] = "edges" /\ <<r, m>> \in StaleEdges(x)
    BY <2>1, <2>2, <2>4, CommitEdges
  <2>6. \A q \in Releases : m \in DOMAIN release[q].issued => <<q, m>> \in StaleEdges(x)
    BY <2>1, <2>4, CommitEdges DEF HasEdge
  <2>7. \A q \in Releases : <<q, m>> \notin discogs
    BY DEF HasEdge
  <2>8. m \in Orphans(x)
    <3> DEFINE e == <<r, m>>
    <3>1. e \in StaleEdges(x) /\ e[2] = m
      BY <2>5
    <3> HIDE DEF e
    <3> QED BY <2>6, <2>7, <3>1 DEF Orphans
  <2>9. m \notin Attached(x)
    <3> SUFFICES ASSUME m \in Attached(x) PROVE FALSE
      OBVIOUS
    <3>1. PICK i \in Summaries(x) : m \in MediumIds(batch[x][i].items)
      BY DEF Attached
    <3>2. /\ i \in changed[x] /\ batch[x][i].items # NoBlock /\ batch[x][i].release \in Releases
      BY <2>1, <3>1, MediaOfFlush DEF Summaries, LockInv
    <3>3. PICK j \in changed[x] : /\ batch[x][j].release = batch[x][i].release
                                  /\ release'[batch[x][i].release] = Written(release[batch[x][i].release], batch[x][j])
      BY <2>1, <2>4, <3>2, CommittedRelease DEF LockInv
    <3>4. j = i
      <4>1. changed[x] \subseteq Rows(batch[x]) /\ batch[x] \in Batches \cup {<<>>}
        BY <2>1 DEF LockInv, TypeInv
      <4> QED BY <3>2, <3>3, <4>1, RowsAreDistinct
    <3>5. m \in DOMAIN release'[batch[x][i].release].issued
      BY <2>1, <3>1, <3>2, <3>3, <3>4, WrittenIssued DEF LockInv, TypeInv
    <3> QED BY <3>2, <3>5 DEF HasEdge
  <2>10. media' = (media \ pruned[x]) \cup Attached(x) /\ pruned[x] = Orphans(x)
    BY <2>1, <2>4, <2>5 DEF Commit, PrunedInv
  <2> QED BY <2>8, <2>9, <2>10
<1>2. MediaInv /\ [Next]_vars => [Kept]_vars
  BY <1>1
<1> QED BY <1>2, MediaInvariant, PTL DEF Spec, NoOrphanLeft

-----------------------------------------------------------------------------
(* Deadlocks. *)

(* In a row of flushes that wait for families, or for media, every holder waits for a greater one *)
LEMMA NoCircle ==
    ASSUME LockInv, NEW T \in SUBSET Flushes, NEW s \in {"families", "media"},
           \A x \in T : stage[x] = s /\ want[x] # <<>> /\ holder[Head(want[x])] \in T
    PROVE  T = {}
<1> SUFFICES ASSUME T # {} PROVE FALSE
  OBVIOUS
<1> DEFINE first(x) == want[x][1]
           W == {first(x)[2] : x \in T}
           Numbers == IF s = "families" THEN Families ELSE Media
<1>1. ASSUME NEW x \in T
      PROVE  /\ first(x) \in Locks /\ first(x)[1] = KindOf(s) /\ first(x)[2] \in Numbers
             /\ 1 \in DOMAIN want[x] /\ Head(want[x]) = first(x)
  <2>1. want[x] \in Seq(Locks) /\ want[x] # <<>> /\ stage[x] = s
    BY <1>1 DEF LockInv, TypeInv
  <2>2. 1 \in DOMAIN want[x] /\ first(x) \in Locks /\ Head(want[x]) = first(x)
    BY <2>1
  <2>3. first(x)[1] = KindOf(s)
    BY <1>1, <2>1, <2>2 DEF LockInv, LocksAt, WantAt
  <2>4. \A l \in Locks : l[1] = KindOf(s) => l[2] \in Numbers
    BY DEF Locks, KindOf
  <2> QED BY <2>2, <2>3, <2>4
<1>2. Numbers \subseteq Int /\ IsFiniteSet(Numbers)
  <2>1. Families = {Family[m] : m \in Media}
    BY DEF Families
  <2>2. Families \subseteq Int /\ IsFiniteSet(Families)
    BY <2>1, FamiliesOfMedia
  <2> QED BY <2>2, VocabularyAssumption
<1> HIDE DEF Numbers
<1>3. W \subseteq Int /\ IsFiniteSet(W) /\ W # {}
  <2>1. W \in SUBSET Numbers /\ W # {}
    BY <1>1
  <2> HIDE DEF W
  <2> QED BY <1>2, <2>1, FS_Subset
<1>4. PICK g \in W : \A w \in W : w <= g
  <2> HIDE DEF W
  <2> QED BY <1>3, Greatest
<1>5. PICK x \in T : g = first(x)[2]
  OBVIOUS
<1>6. PICK y \in T : holder[first(x)] = y
  BY <1>1, <1>5
<1>7. g < first(y)[2]
  BY <1>1, <1>5, <1>6 DEF LockInv, LocksAt, OrderAt
<1>8. first(y)[2] \in W
  BY <1>6
<1>9. first(y)[2] \in Int /\ g \in Int /\ first(y)[2] <= g
  BY <1>3, <1>4, <1>8
<1> HIDE DEF first
<1> QED BY <1>7, <1>9

(***************************************************************************)
(* No deadlock among families and media: the two lock statements take them *)
(* in ascending order, so the one of a circle that waits for the greatest  *)
(* lock would wait for a flush that waits for a greater one still.         *)
(***************************************************************************)
THEOREM NoVocabularyDeadlock == Spec => []VocabularyNeverDeadlocks
<1>1. ASSUME LockInv, NEW S \in SUBSET Flushes, Knot(S), NEW x0 \in S PROVE stage[x0] = "releases"
  <2> DEFINE At(s) == {x \in S : stage[x] = s}
  <2>1. ASSUME NEW x \in S
        PROVE  /\ x \in Flushes /\ stage[x] \in {"releases", "families", "media"}
               /\ want[x] # <<>> /\ Head(want[x]) \in Locks /\ holder[Head(want[x])] \in S
               /\ Head(want[x])[1] = KindOf(stage[x])
    <3>1. want[x] # <<>> /\ want[x] \in Seq(Locks) /\ x \in Flushes /\ holder[Head(want[x])] \in S
      BY <1>1, <2>1 DEF Knot, Blocked, LockInv, TypeInv
    <3>2. Head(want[x]) \in Locks /\ Head(want[x]) = want[x][1] /\ 1 \in DOMAIN want[x]
      BY <3>1
    <3> QED BY <1>1, <3>1, <3>2 DEF LockInv, TypeInv, LocksAt, WantAt
  <2>2. At("media") = {}
    <3>1. ASSUME NEW x \in At("media") PROVE holder[Head(want[x])] \in At("media")
      BY <1>1, <2>1, <3>1 DEF LockInv, LocksAt, WantAt, KindOf, PastFamilies
    <3> QED BY <1>1, <2>1, <3>1, NoCircle
  <2>3. At("families") = {}
    <3>1. ASSUME NEW x \in At("families") PROVE holder[Head(want[x])] \in At("families")
      BY <1>1, <2>1, <2>2, <3>1 DEF LockInv, LocksAt, WantAt, KindOf, PastReleases
    <3> QED BY <1>1, <2>1, <3>1, NoCircle
  <2> QED BY <1>1, <2>1, <2>2, <2>3
<1>2. MediaInv => VocabularyNeverDeadlocks
  BY <1>1 DEF MediaInv, VocabularyNeverDeadlocks
<1> QED BY <1>2, MediaInvariant, PTL
=============================================================================
