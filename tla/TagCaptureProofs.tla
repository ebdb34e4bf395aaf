-------------------------- MODULE TagCaptureProofs --------------------------
(***************************************************************************)
(* Theorems about TagCapture, for every list of tags, every taxonomy and   *)
(* every answer of the provider.                                           *)
(***************************************************************************)
EXTENDS TagCapture, FoldLemmas

-----------------------------------------------------------------------------
(* The order of the candidates. *)

(* The sort key of traverse tells the paths of S apart *)
Ordered(tag, c, S) ==
    /\ \A p \in S : ~Better(tag, c, p, p)
    /\ \A p, q \in S : p # q => Better(tag, c, p, q) \/ Better(tag, c, q, p)
    /\ \A p, q, t \in S : Better(tag, c, p, q) /\ Better(tag, c, q, t) => Better(tag, c, p, t)
    /\ \A p, q \in S : Better(tag, c, p, q) => Score(tag, c, p) >= Score(tag, c, q)

(* Paths are sorted by score, then by their labels *)
LEMMA OrderedByScore ==
    ASSUME NEW tag, NEW c, NEW S,
           \A p \in S : Score(tag, c, p) \in Nat /\ p[1] \in Nat /\ Last(p) \in Nat,
           \A p, q \in S : p[1] = q[1] /\ Last(p) = Last(q) => p = q
    PROVE  Ordered(tag, c, S)
<1>1. \A p \in S : ~Better(tag, c, p, p)
  <2> TAKE p \in S
  <2> DEFINE n == Score(tag, c, p)
             k == p[1]
             l == Last(p)
  <2>1. n \in Nat /\ k \in Nat /\ l \in Nat
    OBVIOUS
  <2>2. Better(tag, c, p, p) <=> n > n \/ (n = n /\ (k < k \/ (k = k /\ l < l)))
    BY DEF Better, PathBefore
  <2> HIDE DEF n, k, l
  <2> QED BY <2>1, <2>2
<1>2. ASSUME NEW p \in S, NEW q \in S
      PROVE  /\ p # q => Better(tag, c, p, q) \/ Better(tag, c, q, p)
             /\ Better(tag, c, p, q) => Score(tag, c, p) >= Score(tag, c, q)
  <2> DEFINE n == Score(tag, c, p)
             m == Score(tag, c, q)
             k1 == p[1]
             l1 == Last(p)
             k2 == q[1]
             l2 == Last(q)
  <2>1. n \in Nat /\ m \in Nat /\ k1 \in Nat /\ l1 \in Nat /\ k2 \in Nat /\ l2 \in Nat
    OBVIOUS
  <2>2. /\ Better(tag, c, p, q) <=> n > m \/ (n = m /\ (k1 < k2 \/ (k1 = k2 /\ l1 < l2)))
        /\ Better(tag, c, q, p) <=> m > n \/ (m = n /\ (k2 < k1 \/ (k2 = k1 /\ l2 < l1)))
    BY DEF Better, PathBefore
  <2>3. k1 = k2 /\ l1 = l2 => p = q
    OBVIOUS
  <2> HIDE DEF n, m, k1, l1, k2, l2
  <2>4. p # q => Better(tag, c, p, q) \/ Better(tag, c, q, p)
    BY <2>1, <2>2, <2>3
  <2>5. Better(tag, c, p, q) => n >= m
    BY <2>1, <2>2
  <2> QED BY <2>4, <2>5 DEF n, m
<1>3. ASSUME NEW p \in S, NEW q \in S, NEW t \in S, Better(tag, c, p, q), Better(tag, c, q, t)
      PROVE  Better(tag, c, p, t)
  <2> DEFINE n1 == Score(tag, c, p)
             n2 == Score(tag, c, q)
             n3 == Score(tag, c, t)
             k1 == p[1]
             k2 == q[1]
             k3 == t[1]
             l1 == Last(p)
             l2 == Last(q)
             l3 == Last(t)
  <2>1. /\ n1 \in Nat /\ n2 \in Nat /\ n3 \in Nat
        /\ k1 \in Nat /\ k2 \in Nat /\ k3 \in Nat /\ l1 \in Nat /\ l2 \in Nat /\ l3 \in Nat
    OBVIOUS
  <2>2. /\ n1 > n2 \/ (n1 = n2 /\ (k1 < k2 \/ (k1 = k2 /\ l1 < l2)))
        /\ n2 > n3 \/ (n2 = n3 /\ (k2 < k3 \/ (k2 = k3 /\ l2 < l3)))
    BY <1>3 DEF Better, PathBefore
  <2>3. (n1 > n3 \/ (n1 = n3 /\ (k1 < k3 \/ (k1 = k3 /\ l1 < l3)))) => Better(tag, c, p, t)
    BY DEF Better, PathBefore
  <2> HIDE DEF n1, n2, n3, k1, k2, k3, l1, l2, l3
  <2> QED BY <2>1, <2>2, <2>3
<1> QED BY <1>1, <1>2, <1>3 DEF Ordered

(* Some paths that are ordered have a best one *)
LEMMA BestExists ==
    ASSUME NEW tag, NEW c, NEW S, IsFiniteSet(S), S # {}, Ordered(tag, c, S)
    PROVE  \E p \in S : \A q \in S \ {p} : Better(tag, c, p, q)
<1> DEFINE Q == {T \in SUBSET S : T # {} /\ ~\E p \in T : \A q \in T \ {p} : Better(tag, c, p, q)}
<1> SUFFICES ASSUME Q # {} PROVE FALSE
  OBVIOUS
<1>1. PICK T \in Q : \A U \in SUBSET T : U # T => U \notin Q
  <2>1. Q \in SUBSET SUBSET S
    OBVIOUS
  <2> HIDE DEF Q
  <2> QED BY <2>1, MinimalSubset
<1>2. T \in SUBSET S /\ T # {} /\ ~\E p \in T : \A q \in T \ {p} : Better(tag, c, p, q)
  BY <1>1
<1>3. PICK x \in T : TRUE
  BY <1>2
<1>4. T \ {x} \in SUBSET T /\ T \ {x} # T /\ T \ {x} \in SUBSET S /\ T \ {x} \notin Q
  BY <1>1, <1>2, <1>3
<1>5. CASE T \ {x} = {}
  BY <1>2, <1>3, <1>5
<1>6. CASE T \ {x} # {}
  <2>1. PICK y \in T \ {x} : \A q \in (T \ {x}) \ {y} : Better(tag, c, y, q)
    BY <1>4, <1>6
  <2>2. x \in S /\ y \in S /\ x # y
    BY <1>2, <2>1
  <2>3. CASE Better(tag, c, y, x)
    <3>1. \A q \in T \ {y} : Better(tag, c, y, q)
      BY <2>1, <2>3
    <3> QED BY <1>2, <2>1, <3>1
  <2>4. CASE Better(tag, c, x, y)
    <3>1. \A q \in T \ {x} : Better(tag, c, x, q)
      BY <1>2, <2>1, <2>2, <2>4 DEF Ordered
    <3> QED BY <1>2, <3>1
  <2> QED BY <2>2, <2>3, <2>4 DEF Ordered
<1> QED BY <1>5, <1>6

(* The best of the candidates is in every beam *)
LEMMA BeamHasBest ==
    ASSUME NEW tag, NEW c, NEW S, IsFiniteSet(S), S # {}, Ordered(tag, c, S), NEW width \in Nat \ {0}
    PROVE  \E p \in Beam(tag, c, S, width) : \A q \in S \ {p} : Better(tag, c, p, q)
<1>1. PICK p \in S : \A q \in S \ {p} : Better(tag, c, p, q)
  BY BestExists
<1>2. {q \in S : Better(tag, c, q, p)} = {}
  BY <1>1 DEF Ordered
<1>3. Cardinality({q \in S : Better(tag, c, q, p)}) < width
  BY <1>2, FS_EmptySet
<1> QED BY <1>1, <1>3 DEF Beam

(* A beam is as wide as it says only when there is more to choose from *)
LEMMA BeamOfFew ==
    ASSUME NEW tag, NEW c, NEW S, IsFiniteSet(S), Ordered(tag, c, S), Cardinality(S) <= 3
    PROVE  Beam(tag, c, S, 3) = S
<1>1. ASSUME NEW p \in S PROVE Cardinality({q \in S : Better(tag, c, q, p)}) < 3
  <2> DEFINE A == {q \in S : Better(tag, c, q, p)}
  <2>1. A \in SUBSET (S \ {p})
    BY DEF Ordered
  <2> HIDE DEF A
  <2>2. IsFiniteSet(S \ {p}) /\ Cardinality(S \ {p}) = Cardinality(S) - 1 /\ Cardinality(S) \in Nat
    BY FS_RemoveElement, FS_CardinalityType
  <2>3. Cardinality(A) <= Cardinality(S \ {p}) /\ IsFiniteSet(A)
    BY <2>1, <2>2, FS_Subset
  <2>4. Cardinality(A) \in Nat
    BY <2>3, FS_CardinalityType
  <2>5. Cardinality(A) < 3
    BY <2>2, <2>3, <2>4
  <2> QED BY <2>5 DEF A
<1> QED BY <1>1 DEF Beam

-----------------------------------------------------------------------------
(* The options at a path, and what the captures say of them. *)

(* A first choice is a genre or none; a genre has options, NONE has not *)
LEMMA OptionsOfPath ==
    /\ Children(<<>>) = DOMAIN genres \cup {NONE} /\ Branches(<<>>)
    /\ \A g \in DOMAIN genres : Children(<<g>>) = genres[g] \cup {GENRE_ONLY}
    /\ Children(<<NONE>>) = {}
    /\ \A path \in Parents : Children(path) \subseteq Nat /\ IsFiniteSet(Children(path)) /\ Children(path) # {}
<1>1. Children(<<>>) = DOMAIN genres \cup {NONE}
  BY DEF Children
<1>2. ASSUME NEW o PROVE <<o>> # <<>> /\ Len(<<o>>) = 1 /\ <<o>>[1] = o
  OBVIOUS
<1>3. ASSUME NEW g \in DOMAIN genres PROVE Children(<<g>>) = genres[g] \cup {GENRE_ONLY}
  <2>1. g # NONE
    BY TaxonomyAssumption
  <2> QED BY <1>2, <2>1 DEF Children
<1>4. Children(<<NONE>>) = {}
  BY <1>2 DEF Children
<1>5. /\ Children(<<>>) \subseteq Nat /\ IsFiniteSet(Children(<<>>)) /\ Children(<<>>) # {}
      /\ Branches(<<>>)
  <2>1. IsFiniteSet(DOMAIN genres) /\ NONE \notin DOMAIN genres /\ DOMAIN genres # {}
    BY TaxonomyAssumption
  <2>2. /\ IsFiniteSet(DOMAIN genres \cup {NONE})
        /\ Cardinality(DOMAIN genres \cup {NONE}) = Cardinality(DOMAIN genres) + 1
    BY <2>1, FS_AddElement
  <2>3. Cardinality(DOMAIN genres) \in Nat /\ Cardinality(DOMAIN genres) # 0
    BY <2>1, FS_CardinalityType, FS_EmptySet
  <2>4. Cardinality(Children(<<>>)) > 1
    <3>1. Cardinality(DOMAIN genres) + 1 > 1
      BY <2>3
    <3> QED BY <1>1, <2>2, <3>1
  <2> QED BY <1>1, <2>2, <2>4, TaxonomyAssumption DEF Branches
<1>6. ASSUME NEW g \in DOMAIN genres
      PROVE  Children(<<g>>) \subseteq Nat /\ IsFiniteSet(Children(<<g>>)) /\ Children(<<g>>) # {}
  <2>1. genres[g] \subseteq Nat /\ IsFiniteSet(genres[g]) /\ GENRE_ONLY \in Nat
    BY TaxonomyAssumption
  <2>2. IsFiniteSet(genres[g] \cup {GENRE_ONLY})
    BY <2>1, FS_AddElement
  <2> QED BY <1>3, <2>1, <2>2
<1> QED BY <1>1, <1>3, <1>4, <1>5, <1>6 DEF Parents

AnyOf(s) == CHOOSE x \in s : TRUE

(* The fold in SumFunction *)
Sums(it, fun) ==
    it = [s \in SUBSET DOMAIN fun |-> IF s = {} THEN 0 ELSE fun[AnyOf(s)] + it[s \ {AnyOf(s)}]]

LEMMA SumIsFold ==
    ASSUME NEW fun
    PROVE  SumFunction(fun) = (CHOOSE it : Sums(it, fun))[DOMAIN fun]
BY DEF SumFunction, SumFunctionOnSet, FoldFunctionOnSet, MapThenFoldSet, Sums, AnyOf

(* Nothing adds up to nothing *)
LEMMA SumOfZeros ==
    ASSUME NEW S, IsFiniteSet(S), NEW fun, DOMAIN fun = S, \A x \in S : fun[x] = 0
    PROVE  SumFunction(fun) = 0
<1> DEFINE f == [s \in SUBSET S |-> 0]
           it == CHOOSE it : Sums(it, fun)
<1>1. \A s \in SUBSET S : s # {} => AnyOf(s) \in s
  BY DEF AnyOf
<1>2. Sums(f, fun)
  <2>1. \A s \in SUBSET S : f[s] = IF s = {} THEN 0 ELSE fun[AnyOf(s)] + f[s \ {AnyOf(s)}]
    <3> SUFFICES ASSUME NEW s \in SUBSET S, s # {} PROVE f[s] = fun[AnyOf(s)] + f[s \ {AnyOf(s)}]
      OBVIOUS
    <3>1. AnyOf(s) \in S /\ s \ {AnyOf(s)} \in SUBSET S
      BY <1>1
    <3>2. fun[AnyOf(s)] = 0 /\ f[s \ {AnyOf(s)}] = 0 /\ f[s] = 0
      BY <3>1
    <3> HIDE DEF f
    <3> QED BY <3>2
  <2>2. f = [s \in SUBSET S |-> f[s]]
    OBVIOUS
  <2> HIDE DEF f
  <2>3. f = [s \in SUBSET S |-> IF s = {} THEN 0 ELSE fun[AnyOf(s)] + f[s \ {AnyOf(s)}]]
    BY <2>1, <2>2
  <2> QED BY <2>3 DEF Sums
<1>3. Sums(it, fun)
  BY <1>2
<1>4. f[S] = 0 /\ f[{}] = 0
  OBVIOUS
<1> HIDE DEF f, it
<1>5. RecurAlike(f, it, S)
  <2>1. it[{}] = 0
    BY <1>3 DEF Sums
  <2>2. ASSUME NEW s \in SUBSET S, s # {} PROVE \E x \in s : f[s \ {x}] = it[s \ {x}] => f[s] = it[s]
    <3>1. AnyOf(s) \in s
      BY <1>1, <2>2
    <3>2. it[s] = fun[AnyOf(s)] + it[s \ {AnyOf(s)}]
      BY <1>3, <2>2 DEF Sums
    <3>3. f[s] = fun[AnyOf(s)] + f[s \ {AnyOf(s)}]
      BY <1>2, <2>2 DEF Sums
    <3> QED BY <3>1, <3>2, <3>3
  <2> QED BY <1>4, <2>1, <2>2 DEF RecurAlike
<1>6. f[S] = it[S]
  BY <1>5, SameRecursion DEF EqualOnSubsets
<1> QED BY <1>4, <1>6, SumIsFold DEF it

(* valid_distribution: some option is possible *)
LEMMA SomeOption ==
    ASSUME NEW path \in Parents, NEW d \in Distributions[path]
    PROVE  /\ d \in [Children(path) -> Nat]
           /\ \E o \in Children(path) : d[o] > 0
<1>1. d \in [Children(path) -> Weights] /\ SumFunction(d) = Total
  BY DEF Distributions
<1>2. d \in [Children(path) -> Nat]
  <2>1. Total \in Nat
    BY BoundsAssumption
  <2>2. Weights \subseteq Nat
    BY <2>1, BoundsAssumption
  <2> QED BY <1>1, <2>2
<1>3. IsFiniteSet(Children(path)) /\ Total # 0
  BY OptionsOfPath, BoundsAssumption
<1>4. ASSUME \A o \in Children(path) : d[o] = 0 PROVE FALSE
  BY <1>1, <1>3, <1>4, SumOfZeros
<1>5. PICK o \in Children(path) : d[o] # 0
  BY <1>4
<1> QED BY <1>2, <1>5

(* The image of a finite set is finite *)
LEMMA FiniteImage ==
    ASSUME NEW S, IsFiniteSet(S), NEW f, DOMAIN f = S, f = [x \in S |-> f[x]]
    PROVE  IsFiniteSet({f[x] : x \in S})
<1> DEFINE T == {f[x] : x \in S}
<1>1. f \in Surjection(S, T)
  BY DEF Surjection
<1> HIDE DEF T
<1>2. IsFiniteSet(T)
  BY <1>1, FS_Surjection
<1> QED BY <1>2 DEF T

-----------------------------------------------------------------------------
(* The two levels of a traversal. *)

CacheType(c) == \A key \in DOMAIN c : c[key] \in Distributions[key[2]]

(* The first choices: finitely many labels, sorted, at least one of them possible *)
LEMMA FirstChoices ==
    ASSUME NEW tag, NEW c, CacheType(c), <<tag, <<>>>> \in DOMAIN c
    PROVE  /\ IsFiniteSet(Expand(tag, c, <<>>)) /\ Expand(tag, c, <<>>) # {}
           /\ Ordered(tag, c, Expand(tag, c, <<>>))
           /\ \A p \in Expand(tag, c, <<>>) : \E o \in DOMAIN genres \cup {NONE} : p = <<o>>
           /\ c[<<tag, <<>>>>] \in [DOMAIN genres \cup {NONE} -> Nat]
<1> DEFINE C == DOMAIN genres \cup {NONE}
           d == c[<<tag, <<>>>>]
           O == {o \in C : d[o] > 0}
           S == Expand(tag, c, <<>>)
<1>1. /\ Children(<<>>) = C /\ Branches(<<>>) /\ <<>> \in Parents
      /\ C \subseteq Nat /\ IsFiniteSet(C) /\ C # {}
  BY OptionsOfPath DEF Parents
<1>2. d \in Distributions[<<>>]
  BY DEF CacheType
<1>3. d \in [C -> Nat] /\ \E o \in C : d[o] > 0
  BY <1>1, <1>2, SomeOption
<1>4. S = {<<o>> : o \in O}
  <2>1. S = {Append(<<>>, o) : o \in O}
    BY <1>1 DEF Expand
  <2>2. \A o : Append(<<>>, o) = <<o>>
    OBVIOUS
  <2> QED BY <2>1, <2>2
<1> HIDE DEF C, d, S
<1>5. O # {} /\ O \in SUBSET C
  BY <1>3
<1>6. IsFiniteSet(O)
  <2> HIDE DEF O
  <2> QED BY <1>1, <1>5, FS_Subset
<1> HIDE DEF O
<1>7. IsFiniteSet(S)
  <2> DEFINE f == [o \in O |-> <<o>>]
  <2>1. S = {f[o] : o \in O} /\ DOMAIN f = O /\ f = [o \in O |-> f[o]]
    BY <1>4
  <2> HIDE DEF f
  <2> QED BY <1>6, <2>1, FiniteImage
<1>8. \A p \in S : \E o \in C : p = <<o>>
  BY <1>4, <1>5
<1>9. ASSUME NEW p \in S PROVE Score(tag, c, p) \in Nat /\ p[1] \in Nat /\ Last(p) \in Nat /\ p = <<p[1]>>
  <2>1. PICK o \in C : p = <<o>>
    BY <1>8
  <2>2. p[1] = o /\ Len(p) = 1 /\ Last(p) = o /\ o \in Nat
    BY <1>1, <2>1 DEF Last
  <2>3. Score(tag, c, p) = d[o] * d[o]
    BY <2>2 DEF Score, d
  <2>4. d[o] \in Nat
    BY <1>3
  <2>5. d[o] * d[o] \in Nat
    BY <2>4
  <2> QED BY <2>1, <2>2, <2>3, <2>5
<1>10. Ordered(tag, c, S)
  BY <1>9, OrderedByScore
<1>11. S # {}
  BY <1>4, <1>5
<1> QED BY <1>3, <1>7, <1>8, <1>10, <1>11 DEF C, d, S

(* The beam of one is in the beam of three *)
LEMMA FirstBeam ==
    ASSUME NEW tag, NEW c, CacheType(c), <<tag, <<>>>> \in DOMAIN c
    PROVE  /\ \A w \in {1, 3} : FirstLevel(tag, c, w) # {} /\ FirstLevel(tag, c, w) \subseteq Expand(tag, c, <<>>)
           /\ FirstLevel(tag, c, 1) \subseteq FirstLevel(tag, c, 3)
<1> DEFINE S == Expand(tag, c, <<>>)
<1>1. IsFiniteSet(S) /\ S # {} /\ Ordered(tag, c, S)
  BY FirstChoices
<1> HIDE DEF S
<1>2. ASSUME NEW w \in {1, 3} PROVE Beam(tag, c, S, w) # {} /\ Beam(tag, c, S, w) \subseteq S
  <2>1. w \in Nat \ {0}
    OBVIOUS
  <2>2. Beam(tag, c, S, w) # {}
    BY <1>1, <2>1, BeamHasBest
  <2> QED BY <2>2 DEF Beam
<1>3. Beam(tag, c, S, 1) \subseteq Beam(tag, c, S, 3)
  <2> SUFFICES ASSUME NEW p \in S, Cardinality({q \in S : Better(tag, c, q, p)}) < 1
               PROVE  Cardinality({q \in S : Better(tag, c, q, p)}) < 3
    BY DEF Beam
  <2> DEFINE A == {q \in S : Better(tag, c, q, p)}
  <2>1. A \in SUBSET S
    OBVIOUS
  <2> HIDE DEF A
  <2>2. IsFiniteSet(A)
    BY <1>1, <2>1, FS_Subset
  <2>3. Cardinality(A) \in Nat /\ Cardinality(A) < 1
    BY <2>2, FS_CardinalityType DEF A
  <2>4. Cardinality(A) < 3
    BY <2>3
  <2> QED BY <2>4 DEF A
<1> QED BY <1>2, <1>3 DEF S, FirstLevel

(* A label is added to a path of one *)
LEMMA SecondLabel ==
    ASSUME NEW o \in Nat, NEW s \in Nat
    PROVE  Append(<<o>>, s) = <<o, s>>
<1> DEFINE q == Append(<<o>>, s)
<1>1. <<o>> \in Seq(Nat) /\ Len(<<o>>) = 1 /\ <<o>>[1] = o
  OBVIOUS
<1>2. q \in Seq(Nat) /\ Len(q) = 2 /\ q[1] = o /\ q[2] = s
  BY <1>1
<1> HIDE DEF q
<1>3. q = [i \in 1 .. 2 |-> q[i]]
  BY <1>2
<1>4. \A i \in 1 .. 2 : q[i] = <<o, s>>[i]
  BY <1>2
<1>5. q = <<o, s>>
  BY <1>3, <1>4
<1> QED BY <1>5 DEF q

Full(p) == p = <<NONE>> \/ \E g \in DOMAIN genres, s \in Nat : p = <<g, s>>

(* The paths that continue a first choice: finitely many, at least one, each with a score *)
LEMMA SecondChoices ==
    ASSUME NEW tag, NEW c, CacheType(c), <<tag, <<>>>> \in DOMAIN c, NEW path \in Expand(tag, c, <<>>),
           Branches(path) => <<tag, path>> \in DOMAIN c
    PROVE  /\ IsFiniteSet(Expand(tag, c, path)) /\ Expand(tag, c, path) # {}
           /\ \A p \in Expand(tag, c, path) : Full(p) /\ Score(tag, c, p) \in Nat
<1> DEFINE d == c[<<tag, <<>>>>]
           E == Expand(tag, c, path)
<1>1. PICK o \in DOMAIN genres \cup {NONE} : path = <<o>>
  BY FirstChoices
<1>2. d \in [DOMAIN genres \cup {NONE} -> Nat]
  BY FirstChoices
<1>3. d[o] \in Nat /\ d[o] * d[o] \in Nat
  <2>1. d[o] \in Nat
    BY <1>2
  <2> HIDE DEF d
  <2> QED BY <2>1
<1>4. CASE o = NONE
  <2>1. E = {<<NONE>>}
    BY <1>1, <1>4, OptionsOfPath DEF Expand
  <2>2. Len(<<NONE>>) = 1 /\ <<NONE>>[1] = NONE
    OBVIOUS
  <2>3. Score(tag, c, <<NONE>>) = d[o] * d[o]
    BY <1>4, <2>2 DEF Score
  <2>4. IsFiniteSet({<<NONE>>})
    BY FS_Singleton
  <2> HIDE DEF d, E
  <2>5. \A p \in E : Full(p) /\ Score(tag, c, p) \in Nat
    BY <1>3, <2>1, <2>3 DEF Full
  <2> QED BY <2>1, <2>4, <2>5 DEF E
<1>5. CASE o # NONE
  <2> DEFINE C == Children(path)
             e == c[<<tag, path>>]
             O == {s \in C : Branches(path) => e[s] > 0}
  <2>1. o \in DOMAIN genres /\ path \in Parents
    BY <1>1, <1>5 DEF Parents
  <2>2. C \subseteq Nat /\ IsFiniteSet(C) /\ C # {}
    BY <2>1, OptionsOfPath
  <2>3. Branches(path) => e \in [C -> Nat] /\ \E s \in C : e[s] > 0
    <3>1. SUFFICES ASSUME Branches(path) PROVE e \in [C -> Nat] /\ \E s \in C : e[s] > 0
      OBVIOUS
    <3>2. e \in Distributions[path]
      BY <3>1 DEF CacheType
    <3> QED BY <2>1, <3>2, SomeOption
  <2>4. E = {<<o, s>> : s \in O}
    <3>1. E = {Append(path, s) : s \in O}
      BY <2>2 DEF Expand
    <3>2. \A s \in O : Append(path, s) = <<o, s>>
      <4> TAKE s \in O
      <4>1. o \in Nat /\ s \in Nat
        BY <2>1, <2>2, TaxonomyAssumption
      <4>2. Append(<<o>>, s) = <<o, s>>
        BY <4>1, SecondLabel
      <4> QED BY <1>1, <4>2
    <3> QED BY <3>1, <3>2
  <2>5. O # {} /\ O \in SUBSET C
    BY <2>2, <2>3
  <2>6. \A s \in O : Branches(path) => e[s] \in Nat
    BY <2>3
  <2> HIDE DEF C, O, E, e, d
  <2>7. IsFiniteSet(O)
    BY <2>2, <2>5, FS_Subset
  <2>8. IsFiniteSet(E)
    <3> DEFINE f == [s \in O |-> <<o, s>>]
    <3>1. E = {f[s] : s \in O} /\ DOMAIN f = O /\ f = [s \in O |-> f[s]]
      BY <2>4
    <3> HIDE DEF f
    <3> QED BY <2>7, <3>1, FiniteImage
  <2>9. ASSUME NEW s \in O PROVE Full(<<o, s>>) /\ Score(tag, c, <<o, s>>) \in Nat
    <3>1. Len(<<o, s>>) = 2 /\ <<o, s>>[1] = o /\ <<o, s>>[2] = s /\ s \in Nat
      BY <2>2, <2>5
    <3>2. Score(tag, c, <<o, s>>) = IF Branches(path) THEN d[o] * e[s] ELSE d[o] * d[o]
      BY <1>1, <3>1 DEF Score, d, e
    <3>3. CASE Branches(path)
      <4>1. d[o] \in Nat /\ e[s] \in Nat
        BY <1>3, <2>6, <3>3
      <4>2. d[o] * e[s] \in Nat
        BY <4>1
      <4> QED BY <2>1, <3>1, <3>2, <3>3, <4>2 DEF Full
    <3>4. CASE ~Branches(path)
      BY <1>3, <2>1, <3>1, <3>2, <3>4 DEF Full
    <3> QED BY <3>3, <3>4
  <2> QED BY <2>4, <2>5, <2>8, <2>9 DEF E
<1> QED BY <1>4, <1>5

(* All the paths that continue some first choices *)
Continued(tag, c, F) == UNION {Expand(tag, c, p) : p \in F}

(* They are ordered, so a traversal has a best candidate *)
LEMMA Continuations ==
    ASSUME NEW tag, NEW c, CacheType(c), <<tag, <<>>>> \in DOMAIN c,
           NEW F \in SUBSET Expand(tag, c, <<>>), F # {}, \A p \in F : Branches(p) => <<tag, p>> \in DOMAIN c
    PROVE  /\ IsFiniteSet(Continued(tag, c, F)) /\ Continued(tag, c, F) # {}
           /\ Ordered(tag, c, Continued(tag, c, F))
           /\ \A p \in Continued(tag, c, F) : Score(tag, c, p) \in Nat
<1> DEFINE U == Continued(tag, c, F)
           f == [p \in F |-> Expand(tag, c, p)]
<1>1. \A p \in F : /\ IsFiniteSet(f[p]) /\ f[p] # {}
                   /\ \A q \in f[p] : Full(q) /\ Score(tag, c, q) \in Nat
  BY SecondChoices
<1>2. U = UNION {f[p] : p \in F} /\ DOMAIN f = F /\ f = [p \in F |-> f[p]]
  BY DEF Continued
<1> HIDE DEF f
<1>3. IsFiniteSet({f[p] : p \in F})
  <2>1. IsFiniteSet(F)
    BY FirstChoices, FS_Subset
  <2> QED BY <1>2, <2>1, FiniteImage
<1>4. IsFiniteSet(U)
  <2> DEFINE X == {f[p] : p \in F}
  <2>1. \A T \in X : IsFiniteSet(T)
    BY <1>1
  <2>2. IsFiniteSet(X) /\ U = UNION X
    BY <1>2, <1>3
  <2> HIDE DEF X, U
  <2> QED BY <2>1, <2>2, FS_UNION
<1>5. U # {} /\ \A p \in U : Full(p) /\ Score(tag, c, p) \in Nat
  BY <1>1, <1>2
<1> HIDE DEF U
<1>6. \A p \in U : Score(tag, c, p) \in Nat /\ p[1] \in Nat /\ Last(p) \in Nat
  <2> TAKE p \in U
  <2>1. NONE \in Nat /\ DOMAIN genres \subseteq Nat
    BY TaxonomyAssumption
  <2>2. CASE p = <<NONE>>
    BY <1>5, <2>1, <2>2 DEF Last
  <2>3. ASSUME NEW g \in DOMAIN genres, NEW s \in Nat, p = <<g, s>>
        PROVE  p[1] \in Nat /\ Last(p) \in Nat
    BY <2>1, <2>3 DEF Last
  <2> QED BY <1>5, <2>2, <2>3 DEF Full
<1>7. ASSUME NEW p \in U, NEW q \in U, p[1] = q[1], Last(p) = Last(q) PROVE p = q
  <2>1. NONE \notin DOMAIN genres
    BY TaxonomyAssumption
  <2>2. <<NONE>>[1] = NONE
    OBVIOUS
  <2>3. \A g, s : <<g, s>>[1] = g /\ Last(<<g, s>>) = s
    BY DEF Last
  <2> QED BY <1>5, <1>7, <2>1, <2>2, <2>3 DEF Full
<1>8. Ordered(tag, c, U)
  BY <1>6, <1>7, OrderedByScore
<1> QED BY <1>4, <1>5, <1>8 DEF U

(* A tag whose captures are complete has candidates, and the best of them is the best of all it continues *)
LEMMA BestCandidate ==
    ASSUME NEW tag, NEW c, CacheType(c), Lacks(tag, c, 3) = {}, NEW w \in {1, 3}
    PROVE  /\ Lacks(tag, c, w) = {} /\ Candidates(tag, c, w) # {}
           /\ Best(tag, c, w) \in Continued(tag, c, FirstLevel(tag, c, w))
           /\ \A q \in Continued(tag, c, FirstLevel(tag, c, w)) : Score(tag, c, Best(tag, c, w)) >= Score(tag, c, q)
<1>1. <<tag, <<>>>> \in DOMAIN c
  BY DEF Lacks
<1>2. \A p \in FirstLevel(tag, c, 3) : Branches(p) => <<tag, p>> \in DOMAIN c
  BY <1>1 DEF Lacks
<1>3. /\ FirstLevel(tag, c, w) # {} /\ FirstLevel(tag, c, w) \in SUBSET Expand(tag, c, <<>>)
      /\ FirstLevel(tag, c, w) \subseteq FirstLevel(tag, c, 3)
  BY <1>1, FirstBeam
<1>4. Lacks(tag, c, w) = {}
  BY <1>1, <1>2, <1>3 DEF Lacks
<1> DEFINE U == Continued(tag, c, FirstLevel(tag, c, w))
           B == Candidates(tag, c, w)
           b == Best(tag, c, w)
<1>5. /\ IsFiniteSet(U) /\ U # {} /\ Ordered(tag, c, U)
      /\ \A p \in U : Score(tag, c, p) \in Nat
  BY <1>1, <1>2, <1>3, Continuations
<1>6. B = Beam(tag, c, U, w)
  BY DEF Candidates, Continued
<1>7. w \in Nat \ {0}
  OBVIOUS
<1> HIDE DEF U, B
<1>8. PICK t \in B : \A q \in U \ {t} : Better(tag, c, t, q)
  BY <1>5, <1>6, <1>7, BeamHasBest
<1>9. B \subseteq U
  BY <1>6 DEF Beam
<1>10. b \in B /\ \A q \in B \ {b} : Better(tag, c, b, q)
  BY <1>8, <1>9 DEF Best, B
<1> HIDE DEF b
<1>11. \A p, q \in U : Better(tag, c, p, q) => Score(tag, c, p) >= Score(tag, c, q)
  BY <1>5 DEF Ordered
<1>12. ASSUME NEW q \in U PROVE Score(tag, c, b) >= Score(tag, c, q)
  <2>1. b \in U /\ t \in U
    BY <1>8, <1>9, <1>10
  <2>2. Score(tag, c, b) \in Nat /\ Score(tag, c, t) \in Nat /\ Score(tag, c, q) \in Nat
    BY <1>5, <2>1
  <2>3. Score(tag, c, b) >= Score(tag, c, t)
    <3>1. CASE b = t
      BY <2>2, <3>1
    <3>2. CASE b # t
      BY <1>8, <1>10, <1>11, <2>1, <3>2
    <3> QED BY <3>1, <3>2
  <2>4. Score(tag, c, t) >= Score(tag, c, q)
    <3>1. CASE q = t
      BY <2>2, <3>1
    <3>2. CASE q # t
      BY <1>8, <1>11, <2>1, <3>2
    <3> QED BY <3>1, <3>2
  <2> QED BY <2>2, <2>3, <2>4
<1> QED BY <1>4, <1>8, <1>9, <1>10, <1>12 DEF U, B, b

(* The beam's best path beats the greedy one, and every path when the beam drops no first choice *)
LEMMA BeamWins ==
    ASSUME NEW tag, NEW c, CacheType(c), Lacks(tag, c, 3) = {}
    PROVE  /\ Score(tag, c, Best(tag, c, 3)) >= Score(tag, c, Best(tag, c, 1))
           /\ Cardinality(Expand(tag, c, <<>>)) <= 3 =>
                  \A p \in Continued(tag, c, Expand(tag, c, <<>>)) :
                      Score(tag, c, Best(tag, c, 3)) >= Score(tag, c, p)
<1>1. <<tag, <<>>>> \in DOMAIN c
  BY DEF Lacks
<1>2. /\ Best(tag, c, 1) \in Continued(tag, c, FirstLevel(tag, c, 1))
      /\ \A q \in Continued(tag, c, FirstLevel(tag, c, 3)) : Score(tag, c, Best(tag, c, 3)) >= Score(tag, c, q)
  BY BestCandidate
<1>3. Continued(tag, c, FirstLevel(tag, c, 1)) \subseteq Continued(tag, c, FirstLevel(tag, c, 3))
  BY <1>1, FirstBeam DEF Continued
<1>4. ASSUME Cardinality(Expand(tag, c, <<>>)) <= 3 PROVE FirstLevel(tag, c, 3) = Expand(tag, c, <<>>)
  BY <1>1, <1>4, FirstChoices, BeamOfFew DEF FirstLevel
<1> QED BY <1>2, <1>3, <1>4

(* A traversal that lacks something asks for one of the captures it lacks *)
LEMMA AsksForLacking ==
    ASSUME NEW tag, NEW c, CacheType(c), Lacks(tag, c, 3) # {}
    PROVE  \E key \in Lacks(tag, c, 3) :
               \A other \in Lacks(tag, c, 3) \ {key} : Better(tag, c, key[2], other[2])
<1>1. CASE <<tag, <<>>>> \notin DOMAIN c
  BY <1>1 DEF Lacks
<1>2. CASE <<tag, <<>>>> \in DOMAIN c
  <2> DEFINE L == Lacks(tag, c, 3)
             S == Expand(tag, c, <<>>)
             P == {p \in S : <<tag, p>> \in L}
  <2>1. \A key \in L : \E p \in FirstLevel(tag, c, 3) : key = <<tag, p>>
    BY <1>2 DEF Lacks
  <2>2. FirstLevel(tag, c, 3) \subseteq S /\ IsFiniteSet(S) /\ Ordered(tag, c, S)
    BY <1>2, FirstBeam, FirstChoices
  <2> HIDE DEF L, S
  <2>3. L = {<<tag, p>> : p \in P} /\ P # {} /\ P \in SUBSET S
    BY <2>1, <2>2 DEF L
  <2> HIDE DEF P
  <2>4. IsFiniteSet(P) /\ Ordered(tag, c, P)
    <3>1. IsFiniteSet(P)
      BY <2>2, <2>3, FS_Subset
    <3>2. Ordered(tag, c, P)
      BY <2>2, <2>3 DEF Ordered
    <3> QED BY <3>1, <3>2
  <2>5. PICK p \in P : \A q \in P \ {p} : Better(tag, c, p, q)
    BY <2>3, <2>4, BestExists
  <2>6. <<tag, p>> \in L /\ \A other \in L \ {<<tag, p>>} : Better(tag, c, p, other[2])
    BY <2>3, <2>5
  <2> QED BY <2>6 DEF L
<1> QED BY <1>1, <1>2

-----------------------------------------------------------------------------
(* The tags of a run, each once. *)

(* A new element at the end *)
LEMMA AppendNew ==
    ASSUME NEW T, NEW s \in Seq(T), NEW t \in T, IsInjective(s), t \notin Range(s)
    PROVE  Append(s, t) \in Seq(T) /\ IsInjective(Append(s, t)) /\ Range(Append(s, t)) = Range(s) \cup {t}
<1> DEFINE a == Append(s, t)
           n == Len(s)
<1>1. /\ n \in Nat /\ DOMAIN s = 1 .. n
      /\ a \in Seq(T) /\ DOMAIN a = 1 .. n + 1 /\ a[n + 1] = t /\ \A i \in 1 .. n : a[i] = s[i]
  OBVIOUS
<1> HIDE DEF a, n
<1>2. \A i \in DOMAIN a : i = n + 1 \/ i \in 1 .. n
  BY <1>1
<1>3. \A i \in 1 .. n : i \in DOMAIN a /\ n + 1 \in DOMAIN a /\ a[i] # t
  BY <1>1 DEF Range
<1>4. IsInjective(a)
  <2> SUFFICES ASSUME NEW i \in DOMAIN a, NEW j \in DOMAIN a, a[i] = a[j] PROVE i = j
    BY DEF IsInjective
  <2>1. CASE i \in 1 .. n /\ j \in 1 .. n
    BY <1>1, <2>1 DEF IsInjective
  <2>2. CASE i = n + 1 \/ j = n + 1
    BY <1>1, <1>2, <1>3, <2>2
  <2> QED BY <1>2, <2>1, <2>2
<1>5. Range(a) = Range(s) \cup {t}
  <2>1. n + 1 \in DOMAIN a /\ a[n + 1] = t
    BY <1>1
  <2>2. \A i \in DOMAIN a : a[i] = t \/ (i \in DOMAIN s /\ a[i] = s[i])
    BY <1>1, <1>2
  <2>3. \A i \in DOMAIN s : i \in DOMAIN a /\ a[i] = s[i]
    BY <1>1, <1>3
  <2> QED BY <2>1, <2>2, <2>3 DEF Range
<1> QED BY <1>1, <1>4, <1>5 DEF a

(* Two lists of different elements make one *)
LEMMA ConcatDisjoint ==
    ASSUME NEW T, NEW s \in Seq(T), NEW t \in Seq(T), IsInjective(s), IsInjective(t), Range(s) \cap Range(t) = {}
    PROVE  s \o t \in Seq(T) /\ IsInjective(s \o t) /\ Range(s \o t) = Range(s) \cup Range(t)
<1> DEFINE a == s \o t
           n == Len(s)
           m == Len(t)
<1>1. /\ n \in Nat /\ m \in Nat /\ DOMAIN s = 1 .. n /\ DOMAIN t = 1 .. m
      /\ a \in Seq(T) /\ DOMAIN a = 1 .. n + m
      /\ \A i \in 1 .. n + m : a[i] = IF i <= n THEN s[i] ELSE t[i - n]
  OBVIOUS
<1> HIDE DEF a, n, m
<1>2. ASSUME NEW i \in DOMAIN a
      PROVE  \/ i \in 1 .. n /\ a[i] = s[i] /\ a[i] \in Range(s)
             \/ i - n \in 1 .. m /\ a[i] = t[i - n] /\ a[i] \in Range(t)
  <2>1. i \in 1 .. n + m /\ i \in Int
    BY <1>1
  <2>2. CASE i <= n
    BY <1>1, <2>1, <2>2 DEF Range
  <2>3. CASE n < i
    <3>1. i - n \in 1 .. m /\ ~(i <= n)
      BY <1>1, <2>1, <2>3
    <3> QED BY <1>1, <2>1, <3>1 DEF Range
  <2> QED BY <1>1, <2>1, <2>2, <2>3
<1>3. IsInjective(a)
  <2> SUFFICES ASSUME NEW i \in DOMAIN a, NEW j \in DOMAIN a, a[i] = a[j] PROVE i = j
    BY DEF IsInjective
  <2>1. \/ i \in 1 .. n /\ j \in 1 .. n /\ s[i] = s[j]
        \/ i - n \in 1 .. m /\ j - n \in 1 .. m /\ t[i - n] = t[j - n]
    BY <1>2
  <2>2. CASE i \in 1 .. n /\ j \in 1 .. n /\ s[i] = s[j]
    BY <1>1, <2>2 DEF IsInjective
  <2>3. CASE i - n \in 1 .. m /\ j - n \in 1 .. m /\ t[i - n] = t[j - n]
    <3>1. i - n = j - n
      BY <1>1, <2>3 DEF IsInjective
    <3>2. i \in Int /\ j \in Int
      BY <1>1
    <3> QED BY <1>1, <3>1, <3>2
  <2> QED BY <2>1, <2>2, <2>3
<1>4. Range(a) \subseteq Range(s) \cup Range(t)
  BY <1>2 DEF Range
<1>5. Range(s) \subseteq Range(a)
  <2>1. \A i \in 1 .. n : i \in 1 .. n + m /\ i <= n
    BY <1>1
  <2>2. \A i \in DOMAIN s : i \in DOMAIN a /\ a[i] = s[i]
    BY <1>1, <2>1
  <2> QED BY <2>2 DEF Range
<1>6. Range(t) \subseteq Range(a)
  <2>1. \A i \in 1 .. m : n + i \in 1 .. n + m /\ ~(n + i <= n) /\ n + i - n = i
    BY <1>1
  <2>2. \A i \in DOMAIN t : n + i \in DOMAIN a /\ a[n + i] = t[i]
    BY <1>1, <2>1
  <2> QED BY <2>2 DEF Range
<1> QED BY <1>1, <1>3, <1>4, <1>5, <1>6 DEF a

Tags == Range(tags)

SeenOnce(seen, t) == IF Contains(seen, t) THEN seen ELSE Append(seen, t)

(* The fold in pending *)
Collects(it) == it = [s \in SUBSET DOMAIN tags |-> IF s = {} THEN <<>> ELSE SeenOnce(it[s \ {Max(s)}], tags[Max(s)])]

LEMMA PendingIsFold == pending = (CHOOSE it : Collects(it))[DOMAIN tags]
BY DEF pending, FoldLeft, MapThenFoldSet, Collects, SeenOnce

LEMMA SeenOnceKeeps ==
    ASSUME NEW seen \in Seq(Tags), NEW t \in Tags
    PROVE  /\ SeenOnce(seen, t) \in Seq(Tags)
           /\ IsInjective(seen) =>
                  IsInjective(SeenOnce(seen, t)) /\ Range(SeenOnce(seen, t)) = Range(seen) \cup {t}
<1>1. DOMAIN seen = 1 .. Len(seen)
  OBVIOUS
<1>2. Contains(seen, t) <=> t \in Range(seen)
  BY <1>1 DEF Contains, Range
<1>3. Append(seen, t) \in Seq(Tags)
  OBVIOUS
<1>4. CASE Contains(seen, t)
  BY <1>2, <1>4 DEF SeenOnce
<1>5. CASE ~Contains(seen, t)
  BY <1>2, <1>3, <1>5, AppendNew DEF SeenOnce
<1> QED BY <1>4, <1>5

(* dict.fromkeys: the pending tags are the tags of the file, none of them twice *)
LEMMA PendingTags ==
    pending \in Seq(Tags) /\ IsInjective(pending) /\ Range(pending) = Tags
<1> DEFINE n == Len(tags)
           V == Seq(Tags)
           c == [s \in SUBSET (1 .. n) |-> Max(s)]
           g == [q \in (1 .. n) \X V |-> SeenOnce(q[2], tags[q[1]])]
           it == CHOOSE it : Collects(it)
<1>1. n \in Nat /\ DOMAIN tags = 1 .. n /\ IsFiniteSet(1 .. n)
  BY TagsAssumption, FS_Interval
<1>2. \A k \in 1 .. n : tags[k] \in Tags
  BY <1>1 DEF Tags, Range
<1>3. \A s \in SUBSET (1 .. n) : c[s] = Max(s) /\ (s # {} => Max(s) \in s)
  BY <1>1, MaxOfPositions
<1>4. g \in [(1 .. n) \X V -> V] /\ \A k \in 1 .. n, v \in V : g[<<k, v>>] = SeenOnce(v, tags[k])
  BY <1>2, SeenOnceKeeps
<1>5. <<>> \in V
  OBVIOUS
<1> HIDE DEF c, g, n, V
<1>6. Chooses(c, 1 .. n)
  BY <1>3 DEF Chooses
<1>7. PICK f : Folds(f, 1 .. n, c, g, <<>>, V)
  BY <1>1, <1>4, <1>5, <1>6, FoldExists
<1>8. f \in [SUBSET (1 .. n) -> V] /\ f[{}] = <<>>
  BY <1>7 DEF Folds
<1>9. ASSUME NEW s \in SUBSET (1 .. n), s # {}
      PROVE  /\ f[s] = SeenOnce(f[s \ {Max(s)}], tags[Max(s)])
             /\ Max(s) \in s /\ tags[Max(s)] \in Tags /\ f[s \ {Max(s)}] \in V
  <2>1. f[s] = g[<<c[s], f[s \ {c[s]}]>>] /\ c[s] = Max(s) /\ Max(s) \in s
    BY <1>3, <1>7, <1>9 DEF Folds
  <2>2. Max(s) \in 1 .. n /\ f[s \ {Max(s)}] \in V
    BY <1>8, <1>9, <2>1
  <2> QED BY <1>2, <1>4, <2>1, <2>2
<1>10. Collects(f)
  <2>1. f = [s \in SUBSET (1 .. n) |-> f[s]]
    BY <1>8
  <2>2. \A s \in SUBSET (1 .. n) : f[s] = IF s = {} THEN <<>> ELSE SeenOnce(f[s \ {Max(s)}], tags[Max(s)])
    BY <1>8, <1>9
  <2>3. f = [s \in SUBSET (1 .. n) |-> IF s = {} THEN <<>> ELSE SeenOnce(f[s \ {Max(s)}], tags[Max(s)])]
    BY <2>1, <2>2
  <2> QED BY <1>1, <2>3 DEF Collects
<1>11. Collects(it)
  BY <1>10
<1> HIDE DEF it
<1>12. RecurAlike(f, it, 1 .. n)
  <2>1. it[{}] = <<>>
    BY <1>11 DEF Collects
  <2>2. ASSUME NEW s \in SUBSET (1 .. n), s # {}
        PROVE  \E x \in s : f[s \ {x}] = it[s \ {x}] => f[s] = it[s]
    <3>1. it[s] = SeenOnce(it[s \ {Max(s)}], tags[Max(s)])
      BY <1>1, <1>11, <2>2 DEF Collects
    <3> QED BY <1>9, <2>2, <3>1
  <2> QED BY <1>8, <2>1, <2>2 DEF RecurAlike
<1>13. pending = f[1 .. n]
  <2>1. f[1 .. n] = it[1 .. n]
    BY <1>1, <1>12, SameRecursion DEF EqualOnSubsets
  <2> QED BY <1>1, <2>1, PendingIsFold DEF it
<1> DEFINE TagsAt(s) == {tags[k] : k \in s}
           Q == {s \in SUBSET (1 .. n) : ~(IsInjective(f[s]) /\ Range(f[s]) = TagsAt(s))}
<1>14. ASSUME Q # {} PROVE FALSE
  <2>1. PICK T \in Q : \A U \in SUBSET T : U # T => U \notin Q
    <3>1. Q \in SUBSET SUBSET (1 .. n)
      OBVIOUS
    <3> HIDE DEF Q
    <3> QED BY <1>1, <1>14, <3>1, MinimalSubset
  <2>2. T \in SUBSET (1 .. n) /\ ~(IsInjective(f[T]) /\ Range(f[T]) = TagsAt(T))
    BY <2>1
  <2>3. T # {}
    <3>1. IsInjective(<<>>) /\ Range(<<>>) = {}
      BY DEF IsInjective, Range
    <3>2. TagsAt({}) = {}
      OBVIOUS
    <3> QED BY <1>8, <2>2, <3>1, <3>2
  <2> DEFINE x == Max(T)
             U == T \ {x}
  <2>4. x \in T /\ tags[x] \in Tags /\ f[U] \in V /\ f[T] = SeenOnce(f[U], tags[x])
    BY <1>9, <2>2, <2>3
  <2>5. U \in SUBSET T /\ U # T /\ U \in SUBSET (1 .. n)
    BY <2>2, <2>4
  <2>6. IsInjective(f[U]) /\ Range(f[U]) = TagsAt(U)
    BY <2>1, <2>5
  <2>7. TagsAt(T) = TagsAt(U) \cup {tags[x]}
    BY <2>4
  <2> HIDE DEF x, U, TagsAt, Q
  <2>8. IsInjective(f[T]) /\ Range(f[T]) = TagsAt(U) \cup {tags[x]}
    BY <2>4, <2>6, SeenOnceKeeps DEF V
  <2> QED BY <2>2, <2>7, <2>8
<1>15. IsInjective(f[1 .. n]) /\ Range(f[1 .. n]) = TagsAt(1 .. n)
  BY <1>14
<1>16. TagsAt(1 .. n) = Tags
  BY <1>1 DEF Tags, Range
<1> QED BY <1>8, <1>13, <1>15, <1>16 DEF V

-----------------------------------------------------------------------------
(* The invariant of a run. *)

(* Tags before the one at hand are completed or failed, each once *)
Accounted ==
    /\ completed \in Seq(Tags) /\ IsInjective(completed)
    /\ failed \in Seq(Tags) /\ IsInjective(failed)
    /\ Range(completed) \cap Range(failed) = {}
    /\ Range(completed) \cup Range(failed) = {pending[k] : k \in 1 .. position - 1}

(* What is skipped is what remains when a run ends *)
SkippedRemains ==
    /\ skipped = IF status = "done" THEN Remaining ELSE <<>>
    /\ skipped # <<>> => requests = max_requests

FailuresKnown == \A i \in DOMAIN failed : \E key \in failures : key[1] = failed[i]

(* A completed tag has the captures that its widest traversal asks for *)
Captured == \A i \in DOMAIN completed : Lacks(completed[i], cache, 3) = {}

RunInv == TypeOK /\ Accounted /\ SkippedRemains /\ FailuresKnown /\ Captured

(* The tag at hand is new *)
LEMMA NewTag ==
    ASSUME TypeOK, Accounted, AtTag
    PROVE  /\ position \in Int /\ position + 1 \in 1 .. Len(pending) + 1
           /\ Tag \in Tags /\ Tag \notin Range(completed) /\ Tag \notin Range(failed)
           /\ {pending[k] : k \in 1 .. position + 1 - 1} = {pending[k] : k \in 1 .. position - 1} \cup {Tag}
<1> DEFINE n == Len(pending)
<1>1. pending \in Seq(Tags) /\ IsInjective(pending) /\ n \in Nat /\ DOMAIN pending = 1 .. n
  <2>1. pending \in Seq(Tags) /\ IsInjective(pending)
    BY PendingTags
  <2> QED BY <2>1
<1> HIDE DEF n
<1>2. position \in 1 .. n /\ position \in Int /\ position + 1 \in 1 .. n + 1
  BY <1>1 DEF TypeOK, AtTag, n
<1>3. Tag \in Tags
  BY <1>1, <1>2 DEF Tag
<1>4. ASSUME NEW k \in 1 .. position - 1 PROVE pending[k] # Tag
  <2>1. k \in 1 .. n /\ k # position
    BY <1>1, <1>2
  <2> QED BY <1>1, <1>2, <2>1 DEF Tag, IsInjective
<1>5. 1 .. position + 1 - 1 = (1 .. position - 1) \cup {position}
  BY <1>2
<1>6. {pending[k] : k \in 1 .. position + 1 - 1} = {pending[k] : k \in 1 .. position - 1} \cup {Tag}
  BY <1>5 DEF Tag
<1> QED BY <1>2, <1>3, <1>4, <1>6 DEF Accounted, n

(* A request is for a capture of the tag at hand *)
LEMMA RequestLacks ==
    ASSUME TypeOK, AtRequest
    PROVE  Request \in Lacking /\ Request[1] = Tag
<1>1. Lacks(Tag, cache, 3) # {}
  BY DEF AtRequest, Lacking, CaptureWidth
<1>2. Request \in Lacks(Tag, cache, 3)
  <2>1. \E key \in Lacks(Tag, cache, 3) :
            \A other \in Lacks(Tag, cache, 3) \ {key} : Better(Tag, cache, key[2], other[2])
    BY <1>1, AsksForLacking DEF TypeOK, CacheType
  <2> QED BY <2>1 DEF Request, Lacking, CaptureWidth
<1>3. \A key \in Lacks(Tag, cache, 3) : key[1] = Tag
  BY DEF Lacks
<1> QED BY <1>2, <1>3 DEF Lacking, CaptureWidth

(* An answer for one tag leaves the captures of another as complete as they were *)
LEMMA LacksStable ==
    ASSUME NEW c, CacheType(c), NEW tag, Lacks(tag, c, 3) = {}, NEW key, key[1] # tag, NEW d, NEW h,
           h = [k \in DOMAIN c \cup {key} |-> IF k = key THEN d ELSE c[k]]
    PROVE  Lacks(tag, h, 3) = {}
<1> DEFINE root == <<tag, <<>>>>
<1>1. root \in DOMAIN c /\ root # key /\ DOMAIN c \subseteq DOMAIN h
  BY DEF Lacks
<1>2. h[root] = c[root] /\ root \in DOMAIN h
  BY <1>1
<1>3. Expand(tag, h, <<>>) = Expand(tag, c, <<>>)
  BY <1>2 DEF Expand
<1>4. \A p \in Expand(tag, c, <<>>) : Score(tag, h, p) = Score(tag, c, p)
  <2> TAKE p \in Expand(tag, c, <<>>)
  <2>1. PICK o \in DOMAIN genres \cup {NONE} : p = <<o>>
    BY <1>1, FirstChoices
  <2>2. Len(p) # 2
    BY <2>1
  <2> QED BY <1>2, <2>2 DEF Score
<1>5. FirstLevel(tag, h, 3) = FirstLevel(tag, c, 3)
  <2> DEFINE S == Expand(tag, c, <<>>)
  <2>1. \A p, q \in S : Better(tag, h, p, q) <=> Better(tag, c, p, q)
    BY <1>4 DEF Better
  <2>2. \A p \in S : {q \in S : Better(tag, h, q, p)} = {q \in S : Better(tag, c, q, p)}
    BY <2>1
  <2> HIDE DEF S
  <2>3. Beam(tag, h, S, 3) = Beam(tag, c, S, 3)
    BY <2>2 DEF Beam
  <2> QED BY <1>3, <2>3 DEF FirstLevel, S
<1>6. {<<tag, p>> : p \in {p \in FirstLevel(tag, c, 3) : Branches(p)}} \ DOMAIN c = {}
  BY <1>1 DEF Lacks
<1> HIDE DEF root
<1>7. {<<tag, p>> : p \in {p \in FirstLevel(tag, h, 3) : Branches(p)}} \ DOMAIN h = {}
  BY <1>1, <1>5, <1>6
<1> QED BY <1>2, <1>7 DEF Lacks, root

LEMMA InitRun == Init => RunInv
<1> SUFFICES ASSUME Init PROVE RunInv
  OBVIOUS
<1>1. Len(pending) \in Nat
  <2>1. pending \in Seq(Tags)
    BY PendingTags
  <2> QED BY <2>1
<1>2. max_requests \in Nat \ {0} /\ max_attempts \in Nat \ {0}
  BY BoundsAssumption
<1>3. TypeOK
  BY <1>1, <1>2 DEF Init, TypeOK
<1>4. Accounted
  <2>1. 1 .. position - 1 = {}
    BY DEF Init
  <2>2. <<>> \in Seq(Tags) /\ IsInjective(<<>>) /\ Range(<<>>) = {}
    BY DEF IsInjective, Range
  <2> QED BY <2>1, <2>2 DEF Init, Accounted
<1>5. SkippedRemains /\ FailuresKnown /\ Captured
  BY DEF Init, SkippedRemains, FailuresKnown, Captured
<1> QED BY <1>3, <1>4, <1>5 DEF RunInv

(* Steps that only move the status or spend budget *)
LEMMA StepQuiet ==
    ASSUME RunInv, VerifyModel \/ TryAgain \/ WakeUp \/ ModelMismatch
    PROVE  RunInv'
<1>1. /\ UNCHANGED <<cache, position, completed, failed, skipped>>
      /\ status # "done" /\ status' # "done"
      /\ failures \subseteq failures'
      /\ status' \in {"verifying", "running", "sleeping", "done", "refused"}
  BY DEF RunInv, TypeOK, VerifyModel, TryAgain, WakeUp, ModelMismatch, Attempt, AtRequest, AtTag, reportVars
<1>2. requests' \in 0 .. max_requests /\ attempts' \in 0 .. max_attempts - 1
  <2>1. requests \in 0 .. max_requests /\ attempts \in 0 .. max_attempts - 1
        /\ max_requests \in Nat /\ max_attempts \in Nat
    BY BoundsAssumption DEF RunInv, TypeOK
  <2>2. \/ UNCHANGED <<requests, attempts>>
        \/ requests < max_requests /\ requests' = requests + 1 /\ attempts + 1 < max_attempts /\ attempts' = attempts + 1
        \/ requests < max_requests /\ requests' = requests + 1 /\ attempts' = attempts
    BY DEF VerifyModel, TryAgain, WakeUp, ModelMismatch, Attempt
  <2>3. CASE UNCHANGED <<requests, attempts>>
    BY <2>1, <2>3
  <2>4. CASE requests < max_requests /\ requests' = requests + 1 /\ attempts + 1 < max_attempts /\ attempts' = attempts + 1
    BY <2>1, <2>4
  <2>5. CASE requests < max_requests /\ requests' = requests + 1 /\ attempts' = attempts
    BY <2>1, <2>5
  <2> QED BY <2>2, <2>3, <2>4, <2>5
<1>3. TypeOK'
  BY <1>1, <1>2 DEF RunInv, TypeOK
<1>4. Accounted' /\ Captured'
  BY <1>1 DEF RunInv, Accounted, Captured
<1>5. SkippedRemains'
  BY <1>1 DEF RunInv, SkippedRemains
<1>6. FailuresKnown'
  BY <1>1 DEF RunInv, FailuresKnown
<1> QED BY <1>3, <1>4, <1>5, <1>6 DEF RunInv

LEMMA StepAnswered ==
    ASSUME RunInv, Answered
    PROVE  RunInv'
<1>1. PICK d \in Distributions[Request[2]] :
          cache' = [k \in DOMAIN cache \cup {Request} |-> IF k = Request THEN d ELSE cache[k]]
  BY DEF Answered
<1>2. /\ AtRequest /\ AtTag /\ status = "running" /\ requests < max_requests /\ requests' = requests + 1
      /\ attempts' = 0 /\ UNCHANGED <<position, completed, failed, skipped, failures, status>>
  BY DEF Answered, Attempt, AtRequest, AtTag, reportVars
<1>3. Request[1] = Tag /\ Tag \notin Range(completed)
  BY <1>2, RequestLacks, NewTag DEF RunInv
<1>4. CacheType(cache')
  BY <1>1 DEF RunInv, TypeOK, CacheType
<1>5. requests' \in 0 .. max_requests /\ attempts' \in 0 .. max_attempts - 1
  BY <1>2, BoundsAssumption DEF RunInv, TypeOK
<1>6. TypeOK'
  BY <1>2, <1>4, <1>5 DEF RunInv, TypeOK, CacheType
<1>7. Accounted' /\ FailuresKnown'
  BY <1>2 DEF RunInv, Accounted, FailuresKnown
<1>8. SkippedRemains'
  BY <1>2 DEF RunInv, SkippedRemains
<1>9. Captured'
  <2> SUFFICES ASSUME NEW i \in DOMAIN completed PROVE Lacks(completed[i], cache', 3) = {}
    BY <1>2 DEF Captured
  <2>1. Lacks(completed[i], cache, 3) = {} /\ CacheType(cache)
    BY DEF RunInv, Captured, TypeOK, CacheType
  <2>2. Request[1] # completed[i]
    BY <1>3 DEF Range
  <2> QED BY <1>1, <2>1, <2>2, LacksStable
<1> QED BY <1>6, <1>7, <1>8, <1>9 DEF RunInv

LEMMA StepRequestFails ==
    ASSUME RunInv, RequestFails
    PROVE  RunInv'
<1>1. /\ AtRequest /\ AtTag /\ status = "running" /\ requests < max_requests /\ requests' = requests + 1
      /\ failures' = failures \cup {Request} /\ failed' = Append(failed, Tag)
      /\ position' = position + 1 /\ attempts' = 0
      /\ UNCHANGED <<cache, completed, skipped, status>>
  BY DEF RequestFails, Attempt, AtRequest, AtTag, NextTag
<1>2. /\ position + 1 \in 1 .. Len(pending) + 1 /\ position \in Int
      /\ Tag \in Tags /\ Tag \notin Range(completed) /\ Tag \notin Range(failed)
      /\ {pending[k] : k \in 1 .. position + 1 - 1} = {pending[k] : k \in 1 .. position - 1} \cup {Tag}
  BY <1>1, NewTag DEF RunInv
<1>3. Request[1] = Tag
  BY <1>1, RequestLacks DEF RunInv
<1>4. requests' \in 0 .. max_requests /\ attempts' \in 0 .. max_attempts - 1
  BY <1>1, BoundsAssumption DEF RunInv, TypeOK
<1>5. TypeOK'
  BY <1>1, <1>2, <1>4 DEF RunInv, TypeOK
<1>6. failed' \in Seq(Tags) /\ IsInjective(failed') /\ Range(failed') = Range(failed) \cup {Tag}
  BY <1>1, <1>2, AppendNew DEF RunInv, Accounted
<1>7. Accounted'
  <2>1. {pending[k] : k \in 1 .. position' - 1} = {pending[k] : k \in 1 .. position - 1} \cup {Tag}
    <3>1. position' - 1 = position + 1 - 1
      BY <1>1, <1>2
    <3> QED BY <1>2, <3>1, Zenon
  <2>2. Range(completed) \cap Range(failed') = {}
    BY <1>2, <1>6 DEF RunInv, Accounted
  <2>3. Range(completed) \cup Range(failed') = {pending[k] : k \in 1 .. position - 1} \cup {Tag}
    BY <1>6 DEF RunInv, Accounted
  <2> QED BY <1>1, <1>6, <2>1, <2>2, <2>3 DEF RunInv, Accounted
<1>8. SkippedRemains'
  BY <1>1 DEF RunInv, SkippedRemains
<1>9. FailuresKnown'
  <2> SUFFICES ASSUME NEW i \in DOMAIN failed' PROVE \E key \in failures' : key[1] = failed'[i]
    BY DEF FailuresKnown
  <2>1. failed'[i] \in Range(failed) \cup {Tag}
    BY <1>6 DEF Range
  <2>2. CASE failed'[i] = Tag
    BY <1>1, <1>3, <2>2
  <2>3. CASE failed'[i] \in Range(failed)
    BY <1>1, <2>3 DEF RunInv, FailuresKnown, Range
  <2> QED BY <2>1, <2>2, <2>3
<1>10. Captured'
  BY <1>1 DEF RunInv, Captured
<1> QED BY <1>5, <1>7, <1>8, <1>9, <1>10 DEF RunInv

LEMMA StepTagCompleted ==
    ASSUME RunInv, TagCompleted
    PROVE  RunInv'
<1>1. /\ AtTag /\ status = "running" /\ Lacks(Tag, cache, 3) = {} /\ completed' = Append(completed, Tag)
      /\ position' = position + 1 /\ attempts' = 0
      /\ UNCHANGED <<cache, requests, failed, skipped, failures, status>>
  BY DEF TagCompleted, AtTag, NextTag, Lacking, CaptureWidth
<1>2. /\ position + 1 \in 1 .. Len(pending) + 1 /\ position \in Int
      /\ Tag \in Tags /\ Tag \notin Range(completed) /\ Tag \notin Range(failed)
      /\ {pending[k] : k \in 1 .. position + 1 - 1} = {pending[k] : k \in 1 .. position - 1} \cup {Tag}
  BY <1>1, NewTag DEF RunInv
<1>3. attempts' \in 0 .. max_attempts - 1
  BY <1>1, BoundsAssumption
<1>4. TypeOK'
  BY <1>1, <1>2, <1>3 DEF RunInv, TypeOK
<1>5. completed' \in Seq(Tags) /\ IsInjective(completed') /\ Range(completed') = Range(completed) \cup {Tag}
  BY <1>1, <1>2, AppendNew DEF RunInv, Accounted
<1>6. Accounted'
  <2>1. {pending[k] : k \in 1 .. position' - 1} = {pending[k] : k \in 1 .. position - 1} \cup {Tag}
    <3>1. position' - 1 = position + 1 - 1
      BY <1>1, <1>2
    <3> QED BY <1>2, <3>1, Zenon
  <2>2. Range(completed') \cap Range(failed) = {}
    BY <1>2, <1>5 DEF RunInv, Accounted
  <2>3. Range(completed') \cup Range(failed) = {pending[k] : k \in 1 .. position - 1} \cup {Tag}
    BY <1>5 DEF RunInv, Accounted
  <2> QED BY <1>1, <1>5, <2>1, <2>2, <2>3 DEF RunInv, Accounted
<1>7. SkippedRemains' /\ FailuresKnown'
  BY <1>1 DEF RunInv, SkippedRemains, FailuresKnown
<1>8. Captured'
  <2> SUFFICES ASSUME NEW i \in DOMAIN completed' PROVE Lacks(completed'[i], cache, 3) = {}
    BY <1>1 DEF Captured
  <2>1. completed'[i] \in Range(completed) \cup {Tag}
    BY <1>5 DEF Range
  <2>2. CASE completed'[i] = Tag
    BY <1>1, <2>2
  <2>3. CASE completed'[i] \in Range(completed)
    BY <2>3 DEF RunInv, Captured, Range
  <2> QED BY <2>1, <2>2, <2>3
<1> QED BY <1>4, <1>6, <1>7, <1>8 DEF RunInv

(* A run ends with its budget, or after its last tag *)
LEMMA StepEnds ==
    ASSUME RunInv, BudgetExhausted \/ RunOver
    PROVE  RunInv'
<1>1. /\ status = "running" /\ status' = "done"
      /\ UNCHANGED <<cache, position, attempts, requests, completed, failed, failures>>
  BY DEF BudgetExhausted, RunOver, AtRequest, AtTag, reportVars
<1>2. TypeOK'
  BY <1>1 DEF RunInv, TypeOK
<1>3. Accounted' /\ FailuresKnown' /\ Captured'
  BY <1>1 DEF RunInv, Accounted, FailuresKnown, Captured
<1>4. Remaining' = Remaining
  BY <1>1 DEF Remaining
<1>5. SkippedRemains'
  <2>1. CASE BudgetExhausted
    <3>1. requests = max_requests /\ skipped' = Remaining
      BY <2>1, BoundsAssumption DEF RunInv, TypeOK, BudgetExhausted
    <3> QED BY <1>1, <1>4, <3>1 DEF SkippedRemains
  <2>2. CASE RunOver
    <3>1. Len(pending) \in Nat /\ pending \in Seq(Tags)
      <4>1. pending \in Seq(Tags)
        BY PendingTags
      <4> QED BY <4>1
    <3>2. position = Len(pending) + 1
      BY <2>2, <3>1 DEF RunInv, TypeOK, RunOver
    <3>3. Remaining = <<>>
      BY <3>1, <3>2 DEF Remaining
    <3>4. skipped' = <<>>
      BY <1>1, <2>2 DEF RunOver, reportVars, RunInv, SkippedRemains
    <3> QED BY <1>1, <1>4, <3>3, <3>4 DEF SkippedRemains
  <2> QED BY <2>1, <2>2
<1> QED BY <1>2, <1>3, <1>5 DEF RunInv

LEMMA StepResume ==
    ASSUME RunInv, Resume
    PROVE  RunInv'
<1>1. /\ status' = "verifying" /\ position' = 1 /\ attempts' = 0 /\ requests' = 0 /\ failures' = {}
      /\ completed' = <<>> /\ failed' = <<>> /\ skipped' = <<>> /\ UNCHANGED cache
  BY DEF Resume
<1>2. Len(pending) \in Nat
  <2>1. pending \in Seq(Tags)
    BY PendingTags
  <2> QED BY <2>1
<1>3. TypeOK'
  BY <1>1, <1>2, BoundsAssumption DEF RunInv, TypeOK
<1>4. Accounted'
  <2>1. 1 .. position' - 1 = {}
    BY <1>1
  <2>2. <<>> \in Seq(Tags) /\ IsInjective(<<>>) /\ Range(<<>>) = {}
    BY DEF IsInjective, Range
  <2> QED BY <1>1, <2>1, <2>2 DEF Accounted
<1>5. SkippedRemains' /\ FailuresKnown' /\ Captured'
  BY <1>1 DEF SkippedRemains, FailuresKnown, Captured
<1> QED BY <1>3, <1>4, <1>5 DEF RunInv

LEMMA RunInvariant == Spec => []RunInv
<1>1. RunInv /\ [Next]_vars => RunInv'
  <2> SUFFICES ASSUME RunInv, [Next]_vars PROVE RunInv'
    OBVIOUS
  <2>1. CASE UNCHANGED vars
    BY <2>1 DEF vars, reportVars, RunInv, TypeOK, Accounted, SkippedRemains, Remaining, FailuresKnown, Captured
  <2> QED BY <2>1, StepQuiet, StepAnswered, StepRequestFails, StepTagCompleted, StepEnds, StepResume DEF Next, Step
<1> QED BY <1>1, InitRun, PTL DEF Spec

-----------------------------------------------------------------------------
(* Theorems. *)

(***************************************************************************)
(* However the provider answers, a run stays within its budget and its     *)
(* attempts, and what it has captured are the distributions it asked for   *)
(* (Capturer.resolve, valid_distribution).                                 *)
(***************************************************************************)
THEOREM CaptureTypeCorrect == Spec => []TypeOK
<1>1. RunInv => TypeOK
  BY DEF RunInv
<1> QED BY <1>1, RunInvariant, PTL

(***************************************************************************)
(* The replay finds every capture it asks for, greedily and as a beam, for *)
(* every tag that any run over any taxonomy has completed (Capturer.run,   *)
(* evaluate).                                                              *)
(***************************************************************************)
THEOREM CompletedTagsReplay == Spec => []CompletedReplays
<1>1. RunInv => CompletedReplays
  <2> SUFFICES ASSUME RunInv, NEW i \in DOMAIN completed, NEW width \in {1, 3}
               PROVE  Lacks(completed[i], cache, width) = {} /\ Candidates(completed[i], cache, width) # {}
    BY DEF CompletedReplays
  <2>1. CacheType(cache) /\ Lacks(completed[i], cache, 3) = {}
    BY DEF RunInv, TypeOK, CacheType, Captured
  <2> QED BY <2>1, BestCandidate
<1> QED BY <1>1, RunInvariant, PTL

(***************************************************************************)
(* The beam of three never ends below the greedy path, and finds the best  *)
(* of all paths when it dropped no first choice (traverse).                *)
(***************************************************************************)
THEOREM BeamNeverLoses == Spec => []BeamIsNoWorse
<1>1. RunInv => BeamIsNoWorse
  <2> SUFFICES ASSUME RunInv, NEW i \in DOMAIN completed
               PROVE  LET tag   == completed[i]
                          beam  == Score(tag, cache, Best(tag, cache, 3))
                          first == Expand(tag, cache, <<>>)
                      IN  /\ beam >= Score(tag, cache, Best(tag, cache, 1))
                          /\ Cardinality(first) <= 3 =>
                              \A p \in UNION {Expand(tag, cache, q) : q \in first} : beam >= Score(tag, cache, p)
    BY DEF BeamIsNoWorse
  <2>1. CacheType(cache) /\ Lacks(completed[i], cache, 3) = {}
    BY DEF RunInv, TypeOK, CacheType, Captured
  <2> QED BY <2>1, BeamWins DEF Continued
<1> QED BY <1>1, RunInvariant, PTL

(***************************************************************************)
(* A finished run accounts for every distinct tag of the file exactly once *)
(* (Capturer.run).                                                         *)
(***************************************************************************)
THEOREM TagsAreReported == Spec => []EveryTagReported
<1>1. RunInv => EveryTagReported
  <2> SUFFICES ASSUME RunInv, status = "done" PROVE EveryTagReported
    BY DEF EveryTagReported
  <2> DEFINE n == Len(pending)
             r == SubSeq(pending, position, n)
             early == {pending[k] : k \in 1 .. position - 1}
             late == {pending[k] : k \in position .. n}
             over == completed \o failed
  <2>1. /\ pending \in Seq(Tags) /\ IsInjective(pending) /\ Range(pending) = Tags
        /\ n \in Nat /\ DOMAIN pending = 1 .. n
    <3>1. pending \in Seq(Tags) /\ IsInjective(pending) /\ Range(pending) = Tags
      BY PendingTags
    <3> QED BY <3>1
  <2>2. position \in 1 .. n + 1 /\ position \in Nat
    BY <2>1 DEF RunInv, TypeOK
  <2>3. r \in Seq(Tags) /\ DOMAIN r = 1 .. n - position + 1
        /\ \A k \in DOMAIN r : k + position - 1 \in position .. n /\ r[k] = pending[k + position - 1]
    <3> HIDE DEF n
    <3>1. r \in Seq(Tags) /\ Len(r) = n - position + 1
      BY <2>1, <2>2 DEF n
    <3>2. DOMAIN r = 1 .. n - position + 1
      BY <3>1
    <3>3. \A k \in 1 .. n - position + 1 : r[k] = pending[k + position - 1]
      BY <2>1, <2>2 DEF n
    <3>4. \A k \in 1 .. n - position + 1 : k + position - 1 \in position .. n
      BY <2>1, <2>2
    <3> HIDE DEF r
    <3> QED BY <3>1, <3>2, <3>3, <3>4
  <2> HIDE DEF n, r
  <2>4. IsInjective(r)
    <3> SUFFICES ASSUME NEW i \in DOMAIN r, NEW j \in DOMAIN r, r[i] = r[j] PROVE i = j
      BY DEF IsInjective
    <3>1. i + position - 1 \in 1 .. n /\ j + position - 1 \in 1 .. n
      BY <2>1, <2>2, <2>3
    <3>2. i + position - 1 = j + position - 1
      BY <2>1, <2>3, <3>1 DEF IsInjective
    <3>3. i \in Int /\ j \in Int
      BY <2>3
    <3>4. position \in Int
      BY <2>2
    <3> QED BY <3>2, <3>3, <3>4
  <2>5. Range(r) = late
    <3>1. \A k \in position .. n : k - position + 1 \in DOMAIN r /\ k - position + 1 + position - 1 = k
      BY <2>1, <2>2, <2>3
    <3>2. \A k \in position .. n : pending[k] = r[k - position + 1]
      BY <2>3, <3>1
    <3> QED BY <2>3, <3>1, <3>2 DEF Range
  <2>6. early \cap late = {}
    <3> SUFFICES ASSUME NEW i \in 1 .. position - 1, NEW j \in position .. n, pending[i] = pending[j] PROVE FALSE
      OBVIOUS
    <3>1. i \in 1 .. n /\ j \in 1 .. n /\ i < j
      BY <2>1, <2>2
    <3>2. i = j
      BY <2>1, <3>1 DEF IsInjective
    <3> QED BY <3>1, <3>2
  <2>7. early \cup late = Tags
    <3>1. 1 .. n = (1 .. position - 1) \cup (position .. n)
      BY <2>1, <2>2
    <3> QED BY <2>1, <3>1 DEF Range
  <2>8. skipped = r /\ (skipped # <<>> => requests = max_requests)
    BY DEF RunInv, SkippedRemains, Remaining, r, n
  <2> HIDE DEF early, late
  <2>9. over \in Seq(Tags) /\ IsInjective(over) /\ Range(over) = early
    BY ConcatDisjoint DEF RunInv, Accounted, early
  <2> HIDE DEF over
  <2>10. over \o r \in Seq(Tags) /\ IsInjective(over \o r) /\ Range(over \o r) = Tags
    <3>1. Range(over) \cap Range(r) = {} /\ r \in Seq(Tags)
      BY <2>3, <2>5, <2>6, <2>9
    <3>2. over \o r \in Seq(Tags) /\ IsInjective(over \o r) /\ Range(over \o r) = Range(over) \cup Range(r)
      BY <2>4, <2>9, <3>1, ConcatDisjoint
    <3> QED BY <2>5, <2>7, <2>9, <3>2
  <2>11. \A i \in DOMAIN failed : \E key \in failures : key[1] = failed[i]
    BY DEF RunInv, FailuresKnown
  <2>12. completed \o failed \o skipped = over \o r
    BY <2>8 DEF over
  <2> QED BY <2>8, <2>10, <2>11, <2>12 DEF EveryTagReported, Tags
<1> QED BY <1>1, RunInvariant, PTL
=============================================================================
