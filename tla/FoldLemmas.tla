----------------------------- MODULE FoldLemmas -----------------------------
(***************************************************************************)
(* What a fold over a finite set computes.  The folds of the models (the   *)
(* quantities of a medium added up, the records of a batch applied in      *)
(* turn) are recursive functions on the subsets of a finite set; the       *)
(* lemmas say that such a function exists, that there is only one, and     *)
(* what it returns for a sum.  The last lemma is about enumerations in     *)
(* ascending order.                                                        *)
(***************************************************************************)
EXTENDS Enumeration, FiniteSetsExt, FiniteSetTheorems, WellFoundedInduction, TLAPS

-----------------------------------------------------------------------------
(* Recursion over the subsets of a finite set. *)

(* Among the subsets of a finite set with some property one is minimal *)
LEMMA MinimalSubset ==
    ASSUME NEW S, IsFiniteSet(S), NEW Q \in SUBSET SUBSET S, Q # {}
    PROVE  \E T \in Q : \A U \in SUBSET T : U # T => U \notin Q
<1> DEFINE R == StrictSubsetOrdering(S)
<1>1. IsWellFoundedOn(R, SUBSET S)
  BY FS_StrictSubsetOrderingWellFounded, FS_FiniteSubsetsOfFinite
<1>2. PICK T \in Q : \A U \in Q : ~(<<U, T>> \in R)
  <2> HIDE DEF R
  <2> QED BY <1>1, WFMin
<1>3. \A U \in SUBSET T : U # T => U \notin Q
  BY <1>2 DEF StrictSubsetOrdering
<1> QED BY <1>3

RecurAlike(f, h, S) ==
    /\ f[{}] = h[{}]
    /\ \A s \in SUBSET S : s # {} => \E x \in s : f[s \ {x}] = h[s \ {x}] => f[s] = h[s]

EqualOnSubsets(f, h, S) == \A s \in SUBSET S : f[s] = h[s]

(* Two functions that recur alike on the subsets of a finite set are equal on them *)
LEMMA SameRecursion ==
    ASSUME NEW S, IsFiniteSet(S), NEW f, NEW h, RecurAlike(f, h, S)
    PROVE  EqualOnSubsets(f, h, S)
<1> DEFINE Q == {s \in SUBSET S : f[s] # h[s]}
<1> SUFFICES ASSUME Q # {} PROVE FALSE
  BY DEF EqualOnSubsets
<1>1. PICK T \in Q : \A U \in SUBSET T : U # T => U \notin Q
  <2>1. Q \in SUBSET SUBSET S
    OBVIOUS
  <2> HIDE DEF Q
  <2> QED BY <2>1, MinimalSubset
<1>2. T \in SUBSET S /\ T # {} /\ f[T] # h[T]
  BY <1>1 DEF RecurAlike
<1>3. PICK x \in T : f[T \ {x}] = h[T \ {x}] => f[T] = h[T]
  BY <1>2 DEF RecurAlike
<1>4. T \ {x} \in SUBSET T /\ T \ {x} # T
  OBVIOUS
<1>5. f[T \ {x}] = h[T \ {x}]
  BY <1>1, <1>2, <1>4
<1> QED BY <1>2, <1>3, <1>5

(* f folds g over the subsets of S, taking the element that c chooses first *)
Folds(f, S, c, g, base, V) ==
    /\ f \in [SUBSET S -> V]
    /\ f[{}] = base
    /\ \A s \in SUBSET S : s # {} => f[s] = g[<<c[s], f[s \ {c[s]}]>>]

Chooses(c, S) == \A s \in SUBSET S : s # {} => c[s] \in s

(* Folds over two sets agree where both are defined *)
LEMMA FoldsAgree ==
    ASSUME NEW S, IsFiniteSet(S), NEW c, Chooses(c, S), NEW g, NEW base, NEW V,
           NEW T \in SUBSET S, NEW U \in SUBSET S, NEW f, NEW h,
           Folds(f, T, c, g, base, V), Folds(h, U, c, g, base, V)
    PROVE  \A s \in SUBSET (T \cap U) : f[s] = h[s]
<1> DEFINE W == T \cap U
<1>1. IsFiniteSet(W)
  BY FS_Subset
<1>2. f[{}] = h[{}]
  BY DEF Folds
<1>3. ASSUME NEW s \in SUBSET W, s # {}
      PROVE  \E x \in s : f[s \ {x}] = h[s \ {x}] => f[s] = h[s]
  <2>1. c[s] \in s
    BY <1>3 DEF Chooses
  <2>2. f[s] = g[<<c[s], f[s \ {c[s]}]>>] /\ h[s] = g[<<c[s], h[s \ {c[s]}]>>]
    BY <1>3 DEF Folds
  <2> QED BY <2>1, <2>2
<1>4. RecurAlike(f, h, W)
  BY <1>2, <1>3 DEF RecurAlike
<1>5. EqualOnSubsets(f, h, W)
  BY <1>1, <1>4, SameRecursion
<1> QED BY <1>5 DEF EqualOnSubsets

(* A step function on V and a choice of elements have a fold *)
LEMMA FoldExists ==
    ASSUME NEW S, IsFiniteSet(S), NEW c, Chooses(c, S),
           NEW V, NEW base \in V, NEW g \in [S \X V -> V]
    PROVE  \E f : Folds(f, S, c, g, base, V)
<1> DEFINE Q == {T \in SUBSET S : ~\E f : Folds(f, T, c, g, base, V)}
<1> SUFFICES ASSUME Q # {} PROVE FALSE
  OBVIOUS
<1>1. PICK T \in Q : \A U \in SUBSET T : U # T => U \notin Q
  <2>1. Q \in SUBSET SUBSET S
    OBVIOUS
  <2> HIDE DEF Q
  <2> QED BY <2>1, MinimalSubset
<1>2. T \in SUBSET S /\ ~\E f : Folds(f, T, c, g, base, V)
  BY <1>1
<1> DEFINE Part(U) == CHOOSE f : Folds(f, U, c, g, base, V)
<1>3. ASSUME NEW U \in SUBSET T, U # T PROVE Folds(Part(U), U, c, g, base, V)
  <2>1. \E f : Folds(f, U, c, g, base, V)
    BY <1>1, <1>2, <1>3
  <2> QED BY <2>1
<1> HIDE DEF Part, Q
<1>4. ASSUME NEW U \in SUBSET T, U # T, NEW s \in SUBSET U PROVE Part(U)[s] = Part(s)[s]
  <2>1. s \in SUBSET T /\ s # T /\ U \in SUBSET S /\ s \in SUBSET S /\ s \in SUBSET (U \cap s)
    BY <1>2, <1>4
  <2>2. Folds(Part(U), U, c, g, base, V) /\ Folds(Part(s), s, c, g, base, V)
    BY <1>3, <1>4, <2>1
  <2> QED BY <2>1, <2>2, FoldsAgree
<1> DEFINE f == [s \in SUBSET T |-> IF s # T THEN Part(s)[s]
                                    ELSE IF T = {} THEN base ELSE g[<<c[T], Part(T \ {c[T]})[T \ {c[T]}]>>]]
<1>5. \A s \in SUBSET T : s # T => f[s] = Part(s)[s] /\ f[s] \in V
  <2> TAKE s \in SUBSET T
  <2> HAVE s # T
  <2>1. Part(s) \in [SUBSET s -> V]
    BY <1>3 DEF Folds
  <2> QED BY <2>1
<1>6. f[T] = IF T = {} THEN base ELSE g[<<c[T], Part(T \ {c[T]})[T \ {c[T]}]>>]
  OBVIOUS
<1>7. ASSUME NEW s \in SUBSET T, s # {}
      PROVE  /\ c[s] \in s /\ s \ {c[s]} \in SUBSET T /\ s \ {c[s]} # T
             /\ f[s \ {c[s]}] = Part(s \ {c[s]})[s \ {c[s]}] /\ f[s \ {c[s]}] \in V
  <2>1. c[s] \in s
    BY <1>2, <1>7 DEF Chooses
  <2>2. s \ {c[s]} \in SUBSET T /\ s \ {c[s]} # T
    BY <2>1
  <2> HIDE DEF f
  <2> QED BY <1>5, <2>1, <2>2
<1>8. f[{}] = base
  <2>1. CASE T = {}
    BY <1>6, <2>1
  <2>2. CASE T # {}
    <3>1. Folds(Part({}), {}, c, g, base, V)
      BY <1>3, <2>2
    <3> QED BY <1>5, <2>2, <3>1 DEF Folds
  <2> QED BY <2>1, <2>2
<1>9. ASSUME NEW s \in SUBSET T, s # {} PROVE f[s] = g[<<c[s], f[s \ {c[s]}]>>]
  <2>1. CASE s = T
    <3> HIDE DEF f
    <3> QED BY <1>6, <1>7, <1>9, <2>1
  <2>2. CASE s # T
    <3>1. Folds(Part(s), s, c, g, base, V) /\ f[s] = Part(s)[s]
      BY <1>3, <1>5, <2>2
    <3> DEFINE u == s \ {c[s]}
    <3>2. Part(s)[s] = g[<<c[s], Part(s)[u]>>]
      BY <1>9, <3>1 DEF Folds
    <3>3. Part(s)[u] = Part(u)[u]
      BY <1>4, <2>2
    <3>4. f[u] = Part(u)[u]
      <4> HIDE DEF f
      <4> QED BY <1>7, <1>9
    <3> HIDE DEF f, u
    <3>5. f[s] = g[<<c[s], f[u]>>]
      BY <3>1, <3>2, <3>3, <3>4
    <3> QED BY <3>5 DEF u
  <2> QED BY <2>1, <2>2
<1>10. f \in [SUBSET T -> V]
  <2>1. f[T] \in V
    <3>1. CASE T # {}
      <4>1. c[T] \in S /\ f[T \ {c[T]}] \in V
        <5> HIDE DEF f
        <5> QED BY <1>2, <1>7, <3>1
      <4>2. f[T] = g[<<c[T], f[T \ {c[T]}]>>]
        <5> HIDE DEF f
        <5> QED BY <1>9, <3>1
      <4> HIDE DEF f
      <4> QED BY <4>1, <4>2
    <3> QED BY <1>6, <3>1
  <2>2. \A s \in SUBSET T : f[s] \in V
    <3> TAKE s \in SUBSET T
    <3> HIDE DEF f
    <3> QED BY <1>5, <2>1
  <2> QED BY <2>2
<1>11. Folds(f, T, c, g, base, V)
  <2> HIDE DEF f
  <2> QED BY <1>8, <1>9, <1>10 DEF Folds
<1> QED BY <1>2, <1>11

-----------------------------------------------------------------------------
(* The element a fold over positions takes next. *)

(* Max picks the greatest of some positions of a sequence *)
LEMMA MaxOfPositions ==
    ASSUME NEW n \in Nat, NEW s \in SUBSET (1 .. n), s # {}
    PROVE  Max(s) \in s /\ \A y \in s : y <= Max(s)
<1> DEFINE Q == {T \in SUBSET s : T # {} /\ ~\E x \in T : \A y \in T : x >= y}
<1>1. ASSUME Q # {} PROVE FALSE
  <2>1. IsFiniteSet(s)
    <3>1. IsFiniteSet(1 .. n)
      BY FS_Interval
    <3> QED BY <3>1, FS_Subset
  <2>2. PICK T \in Q : \A U \in SUBSET T : U # T => U \notin Q
    <3>1. Q \in SUBSET SUBSET s
      OBVIOUS
    <3> HIDE DEF Q
    <3> QED BY <1>1, <2>1, <3>1, MinimalSubset
  <2>3. T \in SUBSET s /\ T # {} /\ ~\E x \in T : \A y \in T : x >= y
    BY <2>2
  <2>4. PICK a \in T : TRUE
    BY <2>3
  <2>5. T \ {a} \in SUBSET T /\ T \ {a} # T /\ T \ {a} \in SUBSET s /\ T \ {a} \notin Q
    BY <2>2, <2>3, <2>4
  <2>6. \A x \in T : x \in Int
    BY <2>3
  <2>7. CASE T \ {a} = {}
    <3>1. \A y \in T : a >= y
      BY <2>4, <2>6, <2>7
    <3> QED BY <2>3, <2>4, <3>1
  <2>8. CASE T \ {a} # {}
    <3>1. PICK z \in T \ {a} : \A y \in T \ {a} : z >= y
      BY <2>5, <2>8
    <3>2. a \in Int /\ z \in Int
      BY <2>6, <3>1
    <3>3. CASE z >= a
      <4>1. \A y \in T : z >= y
        BY <3>1, <3>3
      <4> QED BY <2>3, <3>1, <4>1
    <3>4. CASE a >= z
      <4>1. \A y \in T : a >= y
        <5> TAKE y \in T
        <5>1. y \in Int /\ (y = a \/ z >= y)
          BY <2>6, <3>1
        <5> QED BY <3>2, <3>4, <5>1
      <4> QED BY <2>3, <2>4, <4>1
    <3> QED BY <3>2, <3>3, <3>4
  <2> QED BY <2>7, <2>8
<1>2. \E x \in s : \A y \in s : x >= y
  BY <1>1
<1> HIDE DEF Q
<1>3. Max(s) \in s /\ \A y \in s : Max(s) >= y
  BY <1>2 DEF Max
<1>4. \A y \in s : y \in Int
  OBVIOUS
<1> QED BY <1>3, <1>4

-----------------------------------------------------------------------------
(* A finite set of integers has an ascending enumeration, and Ascending returns one *)
LEMMA AscendingIsSorted ==
    ASSUME NEW S, S \subseteq Int, IsFiniteSet(S)
    PROVE  /\ Cardinality(S) \in Nat
           /\ Ascending(S) \in [1 .. Cardinality(S) -> S]
           /\ \A i, j \in 1 .. Cardinality(S) : i < j => Ascending(S)[i] < Ascending(S)[j]
           /\ \A x \in S : \E i \in 1 .. Cardinality(S) : Ascending(S)[i] = x
<1> DEFINE n == Cardinality(S)
           Below(x) == {y \in S : y <= x}
           rank == [x \in S |-> Cardinality(Below(x))]
           Sorted(s) == \A i, j \in DOMAIN s : i < j => s[i] < s[j]
<1>1. n \in Nat /\ IsFiniteSet(1 .. n) /\ Cardinality(1 .. n) = n
  <2>1. n \in Nat
    BY FS_CardinalityType
  <2> QED BY <2>1, FS_Interval
<1>2. ASSUME NEW x \in S PROVE /\ IsFiniteSet(Below(x)) /\ Cardinality(Below(x)) \in 1 .. n
  <2>1. Below(x) \in SUBSET S /\ x \in Below(x)
    BY <1>2
  <2>2. IsFiniteSet(Below(x)) /\ Cardinality(Below(x)) <= n
    BY <2>1, FS_Subset
  <2>3. Cardinality(Below(x)) \in Nat /\ Cardinality(Below(x)) # 0
    BY <2>1, <2>2, FS_CardinalityType, FS_EmptySet
  <2> QED BY <1>1, <2>2, <2>3
<1>3. ASSUME NEW x \in S, NEW y \in S, x < y PROVE Cardinality(Below(x)) < Cardinality(Below(y))
  <2>1. Below(x) \in SUBSET Below(y) /\ y \in Below(y) /\ y \notin Below(x)
    <3>1. x \in Int /\ y \in Int /\ \A z \in S : z \in Int
      BY <1>3
    <3>2. \A z \in S : z <= x => z <= y
      BY <1>3, <3>1
    <3>3. y <= y /\ ~(y <= x)
      BY <1>3, <3>1
    <3> QED BY <3>2, <3>3
  <2>2. /\ Cardinality(Below(x)) <= Cardinality(Below(y))
        /\ Cardinality(Below(y)) = Cardinality(Below(x)) => Below(y) = Below(x)
    BY <1>2, <2>1, FS_Subset
  <2>3. Cardinality(Below(x)) \in Nat /\ Cardinality(Below(y)) \in Nat
    BY <1>2, FS_CardinalityType
  <2> QED BY <2>1, <2>2, <2>3
<1> HIDE DEF n, Below
<1>4. rank \in [S -> 1 .. n] /\ \A x, y \in S : x < y => rank[x] < rank[y]
  BY <1>2, <1>3
<1> HIDE DEF rank
<1>5. rank \in Surjection(S, 1 .. n)
  <2>1. \A x, y \in S : rank[x] = rank[y] => x = y
    <3> SUFFICES ASSUME NEW x \in S, NEW y \in S, rank[x] = rank[y], x # y PROVE FALSE
      OBVIOUS
    <3>1. x < y \/ y < x
      OBVIOUS
    <3>2. rank[x] \in Int /\ rank[y] \in Int
      BY <1>4
    <3> QED BY <1>4, <3>1, <3>2
  <2>2. rank \in Injection(S, 1 .. n)
    BY <1>4, <2>1 DEF Injection, IsInjective
  <2> QED BY <1>1, <2>2, FS_Injection DEF n
<1>6. \E s \in [1 .. n -> S] : Sorted(s)
  <2> DEFINE s == [k \in 1 .. n |-> CHOOSE x \in S : rank[x] = k]
  <2>1. \A k \in 1 .. n : s[k] \in S /\ rank[s[k]] = k
    BY <1>5 DEF Surjection
  <2> HIDE DEF s
  <2>2. DOMAIN s = 1 .. n /\ s \in [1 .. n -> S]
    BY <2>1 DEF s
  <2>3. ASSUME NEW i \in 1 .. n, NEW j \in 1 .. n, i < j PROVE s[i] < s[j]
    <3>1. s[i] \in Int /\ s[j] \in Int /\ s[i] \in S /\ s[j] \in S
      BY <2>1
    <3>2. ~(s[i] = s[j]) /\ ~(s[j] < s[i])
      BY <1>1, <1>4, <2>1, <2>3, <3>1
    <3> QED BY <3>1, <3>2
  <2> QED BY <2>2, <2>3
<1> DEFINE a == Ascending(S)
<1>7. a \in [1 .. n -> S] /\ Sorted(a)
  BY <1>6 DEF Ascending, n
<1> HIDE DEF a
<1>8. ASSUME NEW x \in S PROVE \E i \in 1 .. n : a[i] = x
  <2>1. \A i, j \in 1 .. n : a[i] = a[j] => i = j
    <3> SUFFICES ASSUME NEW i \in 1 .. n, NEW j \in 1 .. n, a[i] = a[j], i # j PROVE FALSE
      OBVIOUS
    <3>1. i < j \/ j < i
      BY <1>1
    <3>2. a[i] \in Int /\ a[j] \in Int /\ DOMAIN a = 1 .. n
      BY <1>7
    <3> QED BY <1>7, <3>1, <3>2
  <2>2. a \in Injection(1 .. n, S)
    BY <1>7, <2>1 DEF Injection, IsInjective
  <2>3. a \in Surjection(1 .. n, S)
    BY <1>1, <2>2, FS_Injection DEF n
  <2> QED BY <2>3 DEF Surjection
<1> QED BY <1>1, <1>7, <1>8 DEF a, n
=============================================================================
