------------------------- MODULE WriteBatcherProofs -------------------------
(***************************************************************************)
(* Theorems about WriteBatcher, for every set of records, batch size and   *)
(* bound on failures.                                                      *)
(***************************************************************************)
EXTENDS WriteBatcher, SequenceTheorems, FoldLemmas

(* The values a future takes *)
FutureStates == {"none", "open", "transient", "failed", "cancelled"} \cup Verdicts

(* A batcher step, whoever calls submit and whenever *)
AnyStep == TaskStep \/ \E d \in Deliveries : Submit(d) \/ CancelWaiter(d)

Occurs(d, queue) == \E i \in DOMAIN queue : queue[i] = d

(***************************************************************************)
(* The lock queue of _commit_guard: a flush task stays in it until its     *)
(* transaction came back, and only its head commits.                       *)
(***************************************************************************)
LockQueue ==
    SERIALIZE_FLUSHES =>
        \A t \in Deliveries :
            /\ stage[t] \in {"created", "commit"} => \E i \in DOMAIN commit_lock : commit_lock[i] = t
            /\ stage[t] = "commit" => t = Head(commit_lock)

TypeInv == BatcherTypeOK /\ LockQueue

-----------------------------------------------------------------------------
(* Lemmas about the operators. *)

(* A non-empty set of positions has a last one *)
LEMMA LastPosition ==
    ASSUME NEW n \in Nat, NEW P \in SUBSET (1 .. n), P # {}
    PROVE  \E i \in P : \A j \in P : j <= i
<1> DEFINE R == OpToRel(<, Nat)
           Q == {m \in Nat : n - m \in P}
<1>1. IsWellFoundedOn(R, Nat)
  BY NatLessThanWellFounded
<1>2. \A i \in P : i \in Nat /\ n - i \in Q
  <2> TAKE i \in P
  <2>1. i \in 1 .. n
    OBVIOUS
  <2>2. i \in Nat /\ n - i \in Nat /\ n - (n - i) = i
    BY <2>1
  <2> QED BY <2>2
<1>3. Q \subseteq Nat /\ Q # {}
  BY <1>2
<1>4. PICK x \in Q : \A y \in Q : ~(<<y, x>> \in R)
  BY <1>1, <1>3, WFMin
<1>5. n - x \in P /\ x \in Nat
  OBVIOUS
<1>6. \A j \in P : j <= n - x
  <2> TAKE j \in P
  <2>1. n - j \in Nat /\ j \in Nat /\ ~(n - j < x)
    BY <1>2, <1>3, <1>4 DEF OpToRel
  <2> QED BY <2>1, <1>5
<1> QED BY <1>5, <1>6

(* _flush_now splits the queue into a batch and a rest *)
LEMMA Split ==
    ASSUME NEW queue \in Seq(Deliveries)
    PROVE  LET c == Cut(queue)
               taken == SubSeq(queue, 1, c)
               rest == SubSeq(queue, c + 1, Len(queue))
           IN  /\ c \in 0 .. Len(queue)
               /\ taken \in Seq(Deliveries)
               /\ DOMAIN taken = 1 .. c
               /\ \A i \in 1 .. c : taken[i] = queue[i]
               /\ rest \in Seq(Deliveries)
               /\ DOMAIN rest = 1 .. (Len(queue) - c)
               /\ \A i \in 1 .. (Len(queue) - c) : rest[i] = queue[c + i]
<1> DEFINE c == Cut(queue)
<1>1. c \in 0 .. Len(queue) /\ Len(queue) \in Nat
  BY BatchSizeAssumption, LenProperties DEF Cut
<1>2. \A i \in 1 .. c : queue[i] \in Deliveries
  BY <1>1, ElementOfSeq
<1>3. \A i \in c + 1 .. Len(queue) : queue[i] \in Deliveries
  BY <1>1, ElementOfSeq
<1> HIDE DEF c
<1>4. /\ SubSeq(queue, 1, c) \in Seq(Deliveries)
      /\ Len(SubSeq(queue, 1, c)) = c
      /\ \A i \in 1 .. c : SubSeq(queue, 1, c)[i] = queue[i]
  BY <1>1, <1>2, SubSeqProperties
<1>5. /\ SubSeq(queue, c + 1, Len(queue)) \in Seq(Deliveries)
      /\ Len(SubSeq(queue, c + 1, Len(queue))) = Len(queue) - c
      /\ \A i \in 1 .. (Len(queue) - c) : SubSeq(queue, c + 1, Len(queue))[i] = queue[c + i]
  BY <1>1, <1>3, SubSeqProperties
<1>6. /\ DOMAIN SubSeq(queue, 1, c) = 1 .. c
      /\ DOMAIN SubSeq(queue, c + 1, Len(queue)) = 1 .. (Len(queue) - c)
  BY <1>4, <1>5, LenProperties
<1> QED BY <1>1, <1>4, <1>5, <1>6 DEF c

-----------------------------------------------------------------------------
(* What each part of a step leaves of the types. *)

(* _flush_now keeps the types of what it assigns *)
LEMMA FlushNowType ==
    ASSUME BatcherTypeOK,
           NEW queue \in Seq(Deliveries),
           NEW fut \in [Deliveries -> FutureStates],
           FlushNow(queue, fut)
    PROVE  /\ pending' \in Seq(Deliveries)
           /\ timer' \in BOOLEAN
           /\ stage' \in [Deliveries -> {"none", "created", "commit", "replay"}]
           /\ batch' \in [Deliveries -> Seq(Deliveries)]
           /\ todo' \in [Deliveries -> SUBSET Deliveries]
           /\ commit_lock' \in Seq(Deliveries)
<1> DEFINE taken == SubSeq(queue, 1, Cut(queue))
           live == {d \in {taken[i] : i \in DOMAIN taken} : fut[d] = "open"}
<1>1. /\ taken \in Seq(Deliveries)
      /\ SubSeq(queue, Cut(queue) + 1, Len(queue)) \in Seq(Deliveries)
      /\ \A i \in DOMAIN taken : taken[i] \in Deliveries
      /\ DOMAIN taken = 1 .. Cut(queue) /\ Cut(queue) \in Nat
  <2>1. /\ taken \in Seq(Deliveries)
        /\ SubSeq(queue, Cut(queue) + 1, Len(queue)) \in Seq(Deliveries)
        /\ DOMAIN taken = 1 .. Cut(queue) /\ Cut(queue) \in 0 .. Len(queue)
    BY Split
  <2>2. Len(queue) \in Nat /\ Len(taken) \in Nat /\ DOMAIN taken = 1 .. Len(taken)
    BY <2>1, LenProperties
  <2>3. \A i \in DOMAIN taken : taken[i] \in Deliveries
    BY <2>1, <2>2, ElementOfSeq
  <2> QED BY <2>1, <2>2, <2>3
<1> HIDE DEF taken
<1>2. pending' \in Seq(Deliveries) /\ timer' \in BOOLEAN
  BY <1>1 DEF FlushNow
<1>3. CASE live = {}
  BY <1>2, <1>3 DEF FlushNow, taskVars, BatcherTypeOK, taken
<1>4. CASE live # {}
  <2>1. taken[1] \in Deliveries
    BY <1>1, <1>4
  <2>2. live \subseteq Deliveries
    BY <1>1
  <2>3. /\ stage' = [stage EXCEPT ![taken[1]] = "created"]
        /\ batch' = [batch EXCEPT ![taken[1]] = taken]
        /\ todo' = [todo EXCEPT ![taken[1]] = live]
        /\ commit_lock' = IF SERIALIZE_FLUSHES THEN Append(commit_lock, taken[1]) ELSE commit_lock
    BY <1>4 DEF FlushNow, taken
  <2>4. commit_lock' \in Seq(Deliveries)
    BY <2>1, <2>3, AppendProperties DEF BatcherTypeOK
  <2> HIDE DEF live
  <2> QED BY <1>1, <1>2, <2>1, <2>2, <2>3, <2>4 DEF BatcherTypeOK
<1> QED BY <1>3, <1>4

(* _superseded keeps one of the members that enrich a node *)
LEMMA RepresentativeMember ==
    ASSUME BatcherTypeOK, NEW t \in Deliveries, NEW n, Positions(t, n) # {}
    PROVE  Representative(t, n) \in todo[t]
<1> DEFINE P == Positions(t, n)
           last == CHOOSE i \in P : \A j \in P : j <= i
<1>1. batch[t] \in Seq(Deliveries)
  BY DEF BatcherTypeOK
<1>2. P \in SUBSET (1 .. Len(batch[t])) /\ Len(batch[t]) \in Nat
  BY <1>1, LenProperties DEF Positions
<1>3. \E i \in P : \A j \in P : j <= i
  BY <1>2, LastPosition
<1>4. last \in P
  BY <1>3
<1> QED BY <1>4 DEF Representative, Positions

(* A batch transaction leaves a record, or nothing, on every node *)
LEMMA ApplyBatchType ==
    ASSUME BatcherTypeOK, NEW t \in Deliveries, ApplyBatch(t)
    PROVE  /\ graph' \in [Nodes -> Records \cup {0}] /\ committed' \subseteq Records
           /\ \A n \in Nodes : Positions(t, n) # {} => graph'[n] \in Records
<1>1. todo[t] \subseteq Records \X (1 .. MaxAttempts)
  BY DEF BatcherTypeOK, Deliveries
<1>2. \A n \in Nodes : Positions(t, n) # {} => Representative(t, n)[1] \in Records
  BY <1>1, RepresentativeMember
<1>3. graph' \in [Nodes -> Records \cup {0}] /\ \A n \in Nodes : Positions(t, n) # {} => graph'[n] \in Records
  BY <1>2 DEF ApplyBatch, BatcherTypeOK
<1>4. committed' \subseteq Records
  BY <1>1 DEF ApplyBatch, BatcherTypeOK
<1> QED BY <1>3, <1>4

(* So does the transaction of one replayed record *)
LEMMA ApplyOneType ==
    ASSUME BatcherTypeOK, NEW d \in Deliveries, ApplyOne(d)
    PROVE  graph' \in [Nodes -> Records \cup {0}] /\ committed' \subseteq Records
<1>1. d[1] \in Records
  BY DEF Deliveries
<1> QED BY <1>1 DEF ApplyOne, BatcherTypeOK

(* Whatever a record matches, its verdict is one of the two *)
LEMMA VerdictType ==
    ASSUME NEW d
    PROVE  Verdict(d) \in Verdicts
BY DEF Verdict, Verdicts

(* _flush_now keeps its live members, in the order of the slice and no others *)
LEMMA LiveBatchMembers ==
    ASSUME BatcherTypeOK, NEW t \in Deliveries
    PROVE  /\ Cardinality(LivePositions(t)) \in Nat
           /\ LiveBatch(t) \in [1 .. Cardinality(LivePositions(t)) -> todo[t]]
           /\ \A i \in DOMAIN batch[t] : batch[t][i] \in todo[t] =>
                  \E k \in DOMAIN LiveBatch(t) : LiveBatch(t)[k] = batch[t][i]
<1> DEFINE P == LivePositions(t)
           s == Ascending(P)
<1>1. batch[t] \in Seq(Deliveries)
  BY DEF BatcherTypeOK
<1>2. P \in SUBSET (1 .. Len(batch[t])) /\ Len(batch[t]) \in Nat
  BY <1>1, LenProperties DEF LivePositions
<1>3. P \subseteq Int /\ IsFiniteSet(P)
  <2>1. IsFiniteSet(1 .. Len(batch[t]))
    BY <1>2, FS_Interval
  <2>2. IsFiniteSet(P)
    BY <1>2, <2>1, FS_Subset
  <2> QED BY <1>2, <2>2
<1>4. /\ Cardinality(P) \in Nat
      /\ s \in [1 .. Cardinality(P) -> P]
      /\ \A i \in P : \E k \in 1 .. Cardinality(P) : s[k] = i
  BY <1>3, AscendingIsSorted
<1>5. \A i \in DOMAIN batch[t] : i \in P <=> batch[t][i] \in todo[t]
  BY DEF LivePositions
<1>6. P \subseteq DOMAIN batch[t]
  BY DEF LivePositions
<1> HIDE DEF s, P
<1>7. LiveBatch(t) = [k \in DOMAIN s |-> batch[t][s[k]]]
  BY DEF LiveBatch, s, P
<1> QED BY <1>4, <1>5, <1>6, <1>7 DEF P

(***************************************************************************)
(* The flag at a position is the verdict of the record at that position:   *)
(* the last record of its node is a row of the batch, and it wrote the     *)
(* node if the node is there (_run_entity_batch).                          *)
(***************************************************************************)
LEMMA FlagIsVerdict ==
    ASSUME NEW n \in Nat, NEW members \in [1 .. n -> Deliveries], NEW i \in 1 .. n
    PROVE  Flags(members)[i] = Verdict(members[i])
<1>1. DOMAIN members = 1 .. n
  OBVIOUS
<1>2. CASE Target[members[i][1]] = NoNode
  BY <1>1, <1>2 DEF Flags, Written, SameNode, Verdict
<1>3. CASE Target[members[i][1]] # NoNode
  <2> DEFINE P == {k \in 1 .. n : SameNode(members[i], members[k])}
  <2>1. i \in P /\ P \in SUBSET (1 .. n)
    BY DEF SameNode
  <2>2. PICK j \in P : \A k \in P : k <= j
    BY <2>1, LastPosition
  <2>3. SameNode(members[i], members[j]) /\ j \in 1 .. n
    BY <2>2
  <2>4. ASSUME NEW k \in 1 .. n, k > j PROVE ~SameNode(members[j], members[k])
    <3>1. ~SameNode(members[i], members[k])
      BY <2>2, <2>3, <2>4
    <3> QED BY <2>3, <3>1 DEF SameNode
  <2>5. j \in Written(members)
    BY <1>1, <1>3, <2>3, <2>4 DEF Written, SameNode
  <2> QED BY <1>1, <1>3, <2>3, <2>5 DEF Flags, Verdict
<1> QED BY <1>2, <1>3

(***************************************************************************)
(* Pairing by position hands out no flag but one's own: what _write        *)
(* answers is what looking up each live member's verdict would answer.     *)
(***************************************************************************)
LEMMA AnswerIsOwnVerdict ==
    ASSUME BatcherTypeOK, NEW t \in Deliveries, Answer(t)
    PROVE  \E S \in SUBSET todo[t] :
               /\ ResolveAll(S, Verdict)
               /\ \A d \in todo[t] : Occurs(d, batch[t]) => d \in S
<1> DEFINE b == LiveBatch(t)
           n == Cardinality(LivePositions(t))
           S == {b[k] : k \in 1 .. n}
           positions(d) == {i \in DOMAIN b \cap DOMAIN Flags(b) : b[i] = d}
<1>1. /\ n \in Nat /\ b \in [1 .. n -> todo[t]]
      /\ \A i \in DOMAIN batch[t] : batch[t][i] \in todo[t] => \E k \in DOMAIN b : b[k] = batch[t][i]
  BY LiveBatchMembers
<1>2. todo[t] \subseteq Deliveries
  BY DEF BatcherTypeOK
<1>3. future' = [d \in Deliveries |-> IF future[d] = "open" /\ positions(d) # {}
                                       THEN Flags(b)[CHOOSE i \in positions(d) : TRUE]
                                       ELSE future[d]]
  BY DEF Answer, Zip
<1> HIDE DEF b, n
<1>4. b \in [1 .. n -> Deliveries] /\ DOMAIN b = 1 .. n /\ DOMAIN Flags(b) = 1 .. n
  BY <1>1, <1>2 DEF Flags
<1>5. \A d \in Deliveries : positions(d) # {} <=> d \in S
  BY <1>4
<1>6. ASSUME NEW d \in Deliveries, positions(d) # {}
      PROVE  Flags(b)[CHOOSE i \in positions(d) : TRUE] = Verdict(d)
  <2> DEFINE p == CHOOSE i \in positions(d) : TRUE
  <2>1. p \in positions(d)
    BY <1>6
  <2> HIDE DEF p
  <2>2. p \in 1 .. n /\ b[p] = d
    BY <1>4, <2>1
  <2>3. Flags(b)[p] = Verdict(b[p])
    BY <1>1, <1>4, <2>2, FlagIsVerdict
  <2> QED BY <2>2, <2>3 DEF p
<1>7. S \in SUBSET todo[t]
  BY <1>1
<1>8. \A d \in todo[t] : Occurs(d, batch[t]) => d \in S
  BY <1>1, <1>4 DEF Occurs
<1> HIDE DEF positions, S
<1>9. future' = [d \in Deliveries |-> IF d \in S /\ future[d] = "open" THEN Verdict(d) ELSE future[d]]
  BY <1>3, <1>5, <1>6
<1> QED BY <1>7, <1>8, <1>9 DEF ResolveAll

(* A flush task that ends keeps the types *)
LEMMA FinishTaskType ==
    ASSUME BatcherTypeOK, NEW t \in Deliveries, FinishTask(t)
    PROVE  /\ stage' \in [Deliveries -> {"none", "created", "commit", "replay"}]
           /\ batch' \in [Deliveries -> Seq(Deliveries)]
           /\ todo' \in [Deliveries -> SUBSET Deliveries]
<1>1. <<>> \in Seq(Deliveries)
  BY EmptySeq
<1> QED BY <1>1 DEF FinishTask, BatcherTypeOK

(* So does one that moves on to its next replayed member *)
LEMMA ReplayedType ==
    ASSUME BatcherTypeOK, NEW t \in Deliveries, NEW d, Replayed(t, d)
    PROVE  /\ stage' \in [Deliveries -> {"none", "created", "commit", "replay"}]
           /\ batch' \in [Deliveries -> Seq(Deliveries)]
           /\ todo' \in [Deliveries -> SUBSET Deliveries]
<1>1. CASE todo[t] = {d}
  BY <1>1, FinishTaskType DEF Replayed
<1>2. CASE todo[t] # {d}
  BY <1>2 DEF Replayed, BatcherTypeOK
<1> QED BY <1>1, <1>2

(* commit_lock is never released by a task that does not hold it *)
LEMMA ReleaseGuardType ==
    ASSUME TypeInv, NEW t \in Deliveries, stage[t] = "commit", ReleaseGuard
    PROVE  commit_lock' \in Seq(Deliveries)
<1>1. SERIALIZE_FLUSHES => commit_lock # <<>>
  BY DEF TypeInv, LockQueue
<1> QED BY <1>1, HeadTailProperties DEF ReleaseGuard, TypeInv, BatcherTypeOK

-----------------------------------------------------------------------------
(* Type correctness. *)

(* Answering the members of a batch keeps the type of the futures *)
LEMMA ResolveAllType ==
    ASSUME BatcherTypeOK, NEW S, ResolveAll(S, Verdict)
    PROVE  future' \in [Deliveries -> FutureStates]
BY VerdictType DEF ResolveAll, BatcherTypeOK, FutureStates

(* So does failing them *)
LEMMA FailType ==
    ASSUME BatcherTypeOK, NEW S, NEW outcome \in FutureStates, Fail(S, outcome)
    PROVE  future' \in [Deliveries -> FutureStates]
BY DEF Fail, ResolveAll, BatcherTypeOK, FutureStates

(* submit keeps the types *)
LEMMA SubmitType ==
    ASSUME BatcherTypeOK, NEW d \in Deliveries, Submit(d)
    PROVE  BatcherTypeOK'
<1> DEFINE queue == Append(pending, d)
           fut == [future EXCEPT ![d] = "open"]
<1>1. queue \in Seq(Deliveries)
  BY AppendProperties DEF BatcherTypeOK
<1>2. fut \in [Deliveries -> FutureStates] /\ future' = fut
  BY DEF BatcherTypeOK, FutureStates, Submit
<1>3. UNCHANGED <<graph, committed, outages, errors>>
  BY DEF Submit, graphVars, faultVars
<1> HIDE DEF queue, fut
<1>4. CASE FlushNow(queue, fut)
  BY <1>1, <1>2, <1>3, <1>4, FlushNowType DEF BatcherTypeOK, FutureStates
<1>5. CASE pending' = queue /\ timer' = TRUE /\ UNCHANGED taskVars
  BY <1>1, <1>2, <1>3, <1>5 DEF BatcherTypeOK, FutureStates, taskVars
<1> QED BY <1>4, <1>5 DEF Submit, queue, fut

(* So does the linger timer *)
LEMMA FlushTimerType ==
    ASSUME BatcherTypeOK, FlushTimer
    PROVE  BatcherTypeOK'
<1>1. pending \in Seq(Deliveries) /\ future \in [Deliveries -> FutureStates]
  BY DEF BatcherTypeOK, FutureStates
<1>2. FlushNow(pending, future)
  BY DEF FlushTimer
<1>3. UNCHANGED <<future, graph, committed, outages, errors>>
  BY DEF FlushTimer, graphVars, faultVars
<1> QED BY <1>1, <1>2, <1>3, FlushNowType DEF BatcherTypeOK

(* So does the return of a batch transaction, on each of its three paths *)
LEMMA CommitReturnsType ==
    ASSUME TypeInv, NEW t \in Deliveries, CommitReturns(t)
    PROVE  BatcherTypeOK'
<1> USE DEF TypeInv
<1>1. ASSUME CommitOk(t) PROVE BatcherTypeOK'
  <2>1. /\ stage[t] = "commit" /\ ApplyBatch(t) /\ Answer(t)
        /\ ReleaseGuard /\ FinishTask(t)
        /\ UNCHANGED <<pending, timer, outages, errors>>
    BY <1>1 DEF CommitOk, faultVars
  <2>2. future' \in [Deliveries -> FutureStates]
    BY <2>1, AnswerIsOwnVerdict, ResolveAllType
  <2> QED
    BY <2>1, <2>2, ApplyBatchType, ReleaseGuardType, FinishTaskType DEF BatcherTypeOK, FutureStates
<1>2. ASSUME CommitTransient(t) PROVE BatcherTypeOK'
  <2>1. /\ stage[t] = "commit" /\ Fail(todo[t], "transient") /\ ReleaseGuard /\ FinishTask(t)
        /\ UNCHANGED <<pending, timer, errors>>
        /\ outages < MaxOutages /\ outages' = outages + 1
    BY <1>2 DEF CommitTransient
  <2>2. graph' \in [Nodes -> Records \cup {0}] /\ committed' \subseteq Records
    BY <1>2, ApplyBatchType DEF CommitTransient, graphVars, BatcherTypeOK
  <2>3. outages' \in 0 .. MaxOutages
    BY <2>1, BudgetAssumption DEF BatcherTypeOK
  <2>4. future' \in [Deliveries -> FutureStates]
    BY <2>1, FailType DEF FutureStates
  <2> QED
    BY <2>1, <2>2, <2>3, <2>4, ReleaseGuardType, FinishTaskType DEF BatcherTypeOK, FutureStates
<1>3. ASSUME CommitFails(t) PROVE BatcherTypeOK'
  <2>1. /\ stage[t] = "commit" /\ ReleaseGuard
        /\ UNCHANGED <<pending, timer, graph, committed, outages>>
    BY <1>3 DEF CommitFails, graphVars
  <2>2. errors' \in 0 .. MaxErrors
    BY <1>3, BudgetAssumption DEF CommitFails, BatcherTypeOK
  <2>3. commit_lock' \in Seq(Deliveries)
    BY <2>1, ReleaseGuardType
  <2>4. CASE Fail(todo[t], "failed") /\ FinishTask(t)
    <3>1. future' \in [Deliveries -> FutureStates]
      BY <2>4, FailType DEF FutureStates
    <3> QED BY <2>1, <2>2, <2>3, <2>4, <3>1, FinishTaskType DEF BatcherTypeOK, FutureStates
  <2>5. CASE stage' = [stage EXCEPT ![t] = "replay"] /\ UNCHANGED <<future, batch, todo>>
    BY <2>1, <2>2, <2>3, <2>5 DEF BatcherTypeOK
  <2> QED BY <1>3, <2>4, <2>5 DEF CommitFails
<1> QED BY <1>1, <1>2, <1>3 DEF CommitReturns

(* So does the return of a replayed record *)
LEMMA ReplayReturnsType ==
    ASSUME BatcherTypeOK, NEW t \in Deliveries, NEW d \in Deliveries, ReplayReturns(t, d)
    PROVE  BatcherTypeOK'
<1>1. ASSUME ReplayOk(t, d) PROVE BatcherTypeOK'
  <2>1. /\ ApplyOne(d) /\ ResolveAll({d}, Verdict) /\ Replayed(t, d)
        /\ UNCHANGED <<pending, timer, commit_lock, outages, errors>>
    BY <1>1 DEF ReplayOk, faultVars
  <2> QED BY <2>1, ApplyOneType, ResolveAllType, ReplayedType DEF BatcherTypeOK, FutureStates
<1>2. ASSUME ReplayTransient(t, d) PROVE BatcherTypeOK'
  <2>1. /\ Fail({d}, "transient") /\ Replayed(t, d)
        /\ UNCHANGED <<pending, timer, commit_lock, errors>>
        /\ outages < MaxOutages /\ outages' = outages + 1
    BY <1>2 DEF ReplayTransient
  <2>2. graph' \in [Nodes -> Records \cup {0}] /\ committed' \subseteq Records
    BY <1>2, ApplyOneType DEF ReplayTransient, graphVars, BatcherTypeOK
  <2>3. outages' \in 0 .. MaxOutages
    BY <2>1, BudgetAssumption DEF BatcherTypeOK
  <2>4. future' \in [Deliveries -> FutureStates]
    BY <2>1, FailType DEF FutureStates
  <2> QED BY <2>1, <2>2, <2>3, <2>4, ReplayedType DEF BatcherTypeOK, FutureStates
<1>3. ASSUME ReplayFails(t, d) PROVE BatcherTypeOK'
  <2>1. /\ Fail({d}, "failed") /\ Replayed(t, d)
        /\ UNCHANGED <<pending, timer, commit_lock, graph, committed, outages>>
    BY <1>3 DEF ReplayFails, graphVars
  <2>2. errors' \in 0 .. MaxErrors
    BY <1>3, BudgetAssumption DEF ReplayFails, BatcherTypeOK
  <2>3. future' \in [Deliveries -> FutureStates]
    BY <2>1, FailType DEF FutureStates
  <2> QED BY <2>1, <2>2, <2>3, ReplayedType DEF BatcherTypeOK, FutureStates
<1> QED BY <1>1, <1>2, <1>3 DEF ReplayReturns

(* Every step of the batcher keeps the types *)
LEMMA StepType ==
    ASSUME TypeInv, AnyStep
    PROVE  BatcherTypeOK'
<1>1. CASE FlushTimer
  BY <1>1, FlushTimerType DEF TypeInv
<1>2. ASSUME NEW d \in Deliveries, Submit(d) PROVE BatcherTypeOK'
  BY <1>2, SubmitType DEF TypeInv
<1>3. ASSUME NEW d \in Deliveries, CancelWaiter(d) PROVE BatcherTypeOK'
  BY <1>3 DEF CancelWaiter, taskVars, graphVars, faultVars, TypeInv, BatcherTypeOK
<1>4. ASSUME NEW t \in Deliveries, BeginCommit(t) PROVE BatcherTypeOK'
  BY <1>4 DEF BeginCommit, graphVars, faultVars, TypeInv, BatcherTypeOK
<1>5. ASSUME NEW t \in Deliveries, CommitReturns(t) PROVE BatcherTypeOK'
  BY <1>5, CommitReturnsType
<1>6. ASSUME NEW t \in Deliveries, NEW d \in Deliveries, ReplayReturns(t, d) PROVE BatcherTypeOK'
  BY <1>6, ReplayReturnsType DEF TypeInv
<1> QED BY <1>1, <1>2, <1>3, <1>4, <1>5, <1>6 DEF AnyStep, TaskStep

-----------------------------------------------------------------------------
(* The lock queue. *)

(* A new flush task joins the queue behind the others *)
LEMMA JoinLock ==
    ASSUME TypeInv, NEW t \in Deliveries,
           stage' = [stage EXCEPT ![t] = "created"],
           commit_lock' = IF SERIALIZE_FLUSHES THEN Append(commit_lock, t) ELSE commit_lock
    PROVE  LockQueue'
<1> SUFFICES ASSUME SERIALIZE_FLUSHES, NEW u \in Deliveries, stage'[u] \in {"created", "commit"}
             PROVE  /\ \E i \in DOMAIN commit_lock' : commit_lock'[i] = u
                    /\ stage'[u] = "commit" => u = Head(commit_lock')
  BY DEF LockQueue
<1>1. /\ commit_lock \in Seq(Deliveries)
      /\ stage \in [Deliveries -> {"none", "created", "commit", "replay"}]
  BY DEF TypeInv, BatcherTypeOK
<1>2. /\ Len(commit_lock) \in Nat
      /\ DOMAIN commit_lock = 1 .. Len(commit_lock)
      /\ DOMAIN commit_lock' = 1 .. Len(commit_lock) + 1
      /\ commit_lock'[Len(commit_lock) + 1] = t
      /\ \A i \in DOMAIN commit_lock : commit_lock'[i] = commit_lock[i]
  BY <1>1, LenProperties, AppendProperties
<1>3. CASE u = t
  <2>1. Len(commit_lock) + 1 \in DOMAIN commit_lock'
    BY <1>2
  <2> QED BY <1>1, <1>2, <1>3, <2>1
<1>4. CASE u # t
  <2>1. stage[u] = stage'[u]
    BY <1>1, <1>4
  <2>2. PICK i \in DOMAIN commit_lock : commit_lock[i] = u
    BY <2>1 DEF TypeInv, LockQueue
  <2>3. i \in DOMAIN commit_lock' /\ commit_lock'[i] = u
    BY <1>2, <2>2
  <2>4. 1 \in DOMAIN commit_lock /\ commit_lock'[1] = commit_lock[1]
    BY <1>2, <2>2
  <2>5. stage'[u] = "commit" => u = Head(commit_lock')
    BY <1>1, <1>2, <2>1, <2>4 DEF TypeInv, LockQueue
  <2> QED BY <2>3, <2>5
<1> QED BY <1>3, <1>4

(* _flush_now keeps the lock queue *)
LEMMA FlushNowLock ==
    ASSUME TypeInv,
           NEW queue \in Seq(Deliveries),
           NEW fut \in [Deliveries -> FutureStates],
           FlushNow(queue, fut)
    PROVE  LockQueue'
<1> DEFINE taken == SubSeq(queue, 1, Cut(queue))
           live == {d \in {taken[i] : i \in DOMAIN taken} : fut[d] = "open"}
<1>1. CASE live = {}
  BY <1>1 DEF FlushNow, taskVars, TypeInv, LockQueue
<1>2. CASE live # {}
  <2>1. taken \in Seq(Deliveries) /\ DOMAIN taken = 1 .. Cut(queue) /\ Cut(queue) \in 0 .. Len(queue)
    BY Split
  <2>2. taken[1] \in Deliveries
    BY <1>2, <2>1, LenProperties, ElementOfSeq
  <2>3. /\ stage' = [stage EXCEPT ![taken[1]] = "created"]
        /\ commit_lock' = IF SERIALIZE_FLUSHES THEN Append(commit_lock, taken[1]) ELSE commit_lock
    BY <1>2 DEF FlushNow
  <2> QED BY <2>2, <2>3, JoinLock
<1> QED BY <1>1, <1>2

(* A task that leaves the commit stage leaves the queue to its next waiter *)
LEMMA LeaveLock ==
    ASSUME TypeInv, NEW t \in Deliveries, stage[t] = "commit", ReleaseGuard,
           NEW s \in {"none", "replay"}, stage' = [stage EXCEPT ![t] = s]
    PROVE  LockQueue'
<1> SUFFICES ASSUME SERIALIZE_FLUSHES, NEW u \in Deliveries, stage'[u] \in {"created", "commit"}
             PROVE  /\ \E i \in DOMAIN commit_lock' : commit_lock'[i] = u
                    /\ stage'[u] = "commit" => u = Head(commit_lock')
  BY DEF LockQueue
<1>1. /\ commit_lock \in Seq(Deliveries)
      /\ stage \in [Deliveries -> {"none", "created", "commit", "replay"}]
  BY DEF TypeInv, BatcherTypeOK
<1>2. u # t /\ stage[u] = stage'[u]
  BY <1>1
<1>3. t = Head(commit_lock) /\ commit_lock # <<>>
  BY DEF TypeInv, LockQueue
<1>4. stage[u] # "commit"
  BY <1>2, <1>3 DEF TypeInv, LockQueue
<1>5. PICK i \in DOMAIN commit_lock : commit_lock[i] = u
  BY <1>2 DEF TypeInv, LockQueue
<1>6. /\ Len(commit_lock) \in Nat
      /\ DOMAIN commit_lock = 1 .. Len(commit_lock)
      /\ Tail(commit_lock) = SubSeq(commit_lock, 2, Len(commit_lock))
      /\ DOMAIN Tail(commit_lock) = 1 .. Len(commit_lock) - 1
      /\ \A j \in 1 .. Len(commit_lock) - 1 : Tail(commit_lock)[j] = commit_lock[j + 1]
  BY <1>1, <1>3, LenProperties, HeadTailProperties, TailIsSubSeq
<1>7. i # 1
  BY <1>1, <1>2, <1>3, <1>5
<1>8. i - 1 \in 1 .. Len(commit_lock) - 1 /\ (i - 1) + 1 = i
  BY <1>6, <1>7
<1>9. i - 1 \in DOMAIN commit_lock' /\ commit_lock'[i - 1] = u
  BY <1>5, <1>6, <1>8 DEF ReleaseGuard
<1> QED BY <1>2, <1>4, <1>9

(* Every step of the batcher keeps the lock queue *)
LEMMA StepLock ==
    ASSUME TypeInv, AnyStep
    PROVE  LockQueue'
<1>1. pending \in Seq(Deliveries) /\ future \in [Deliveries -> FutureStates]
  BY DEF TypeInv, BatcherTypeOK, FutureStates
<1>2. CASE FlushTimer
  BY <1>1, <1>2, FlushNowLock DEF FlushTimer
<1>3. ASSUME NEW d \in Deliveries, Submit(d) PROVE LockQueue'
  <2>1. Append(pending, d) \in Seq(Deliveries) /\ [future EXCEPT ![d] = "open"] \in [Deliveries -> FutureStates]
    BY <1>1, AppendProperties DEF FutureStates
  <2>2. CASE FlushNow(Append(pending, d), [future EXCEPT ![d] = "open"])
    BY <2>1, <2>2, FlushNowLock
  <2>3. CASE UNCHANGED taskVars
    BY <2>3 DEF taskVars, TypeInv, LockQueue
  <2> QED BY <1>3, <2>2, <2>3 DEF Submit
<1>4. ASSUME NEW d \in Deliveries, CancelWaiter(d) PROVE LockQueue'
  BY <1>4 DEF CancelWaiter, taskVars, TypeInv, LockQueue
<1>5. ASSUME NEW t \in Deliveries, BeginCommit(t) PROVE LockQueue'
  BY <1>5 DEF BeginCommit, TypeInv, BatcherTypeOK, LockQueue
<1>6. ASSUME NEW t \in Deliveries, CommitReturns(t) PROVE LockQueue'
  <2>1. stage[t] = "commit" /\ ReleaseGuard
    BY <1>6 DEF CommitReturns, CommitOk, CommitTransient, CommitFails
  <2>2. \E s \in {"none", "replay"} : stage' = [stage EXCEPT ![t] = s]
    BY <1>6 DEF CommitReturns, CommitOk, CommitTransient, CommitFails, FinishTask
  <2> QED BY <2>1, <2>2, LeaveLock
<1>7. ASSUME NEW t \in Deliveries, NEW d \in Deliveries, ReplayReturns(t, d) PROVE LockQueue'
  <2>1. stage' = stage \/ stage' = [stage EXCEPT ![t] = "none"]
    BY <1>7 DEF ReplayReturns, ReplayOk, ReplayTransient, ReplayFails, Replayed, FinishTask
  <2>2. UNCHANGED commit_lock
    BY <1>7 DEF ReplayReturns, ReplayOk, ReplayTransient, ReplayFails
  <2>3. stage \in [Deliveries -> {"none", "created", "commit", "replay"}]
    BY DEF TypeInv, BatcherTypeOK
  <2> QED BY <2>1, <2>2, <2>3 DEF TypeInv, LockQueue
<1> QED BY <1>2, <1>3, <1>4, <1>5, <1>6, <1>7 DEF AnyStep, TaskStep

(* A new WriteBatcher is well typed and its lock free *)
LEMMA InitType == BatcherInit => TypeInv
<1> SUFFICES ASSUME BatcherInit PROVE TypeInv
  OBVIOUS
<1>1. <<>> \in Seq(Deliveries)
  BY EmptySeq
<1>2. BatcherTypeOK
  <2>1. pending \in Seq(Deliveries) /\ commit_lock \in Seq(Deliveries)
    BY <1>1 DEF BatcherInit
  <2>2. batch \in [Deliveries -> Seq(Deliveries)] /\ todo \in [Deliveries -> SUBSET Deliveries]
    BY <1>1 DEF BatcherInit
  <2>3. outages \in 0 .. MaxOutages /\ errors \in 0 .. MaxErrors
    BY BudgetAssumption DEF BatcherInit
  <2> QED BY <2>1, <2>2, <2>3 DEF BatcherInit, BatcherTypeOK
<1>3. LockQueue
  BY DEF BatcherInit, LockQueue
<1> QED BY <1>2, <1>3 DEF TypeInv

(* Nothing changes when nothing happens *)
LEMMA StutterType == TypeInv /\ UNCHANGED batcherVars => TypeInv'
BY DEF TypeInv, BatcherTypeOK, LockQueue, batcherVars, taskVars, graphVars, faultVars

(* The batcher on its own takes no other step *)
LEMMA NextIsAnyStep == BatcherNext => AnyStep
BY DEF BatcherNext, AnyStep

(***************************************************************************)
(* The batcher is type correct.  The invariant needs LockQueue: releasing  *)
(* commit_lock is only defined for its holder (_commit_guard).             *)
(***************************************************************************)
THEOREM BatcherTypeCorrect == BatcherSpec => []BatcherTypeOK
<1>1. TypeInv /\ [BatcherNext]_batcherVars => TypeInv'
  BY StepType, StepLock, StutterType, NextIsAnyStep DEF TypeInv
<1>2. TypeInv => BatcherTypeOK
  BY DEF TypeInv
<1> QED BY InitType, <1>1, <1>2, PTL DEF BatcherSpec

-----------------------------------------------------------------------------
(* What a flush task has in hand. *)

(* What a flush task still has to write is in the queue slice it took *)
MembersInBatch == \A t \in Deliveries : \A d \in todo[t] : Occurs(d, batch[t])

(* A flush task drops members, it never takes up others *)
LEMMA StepMembersInBatch ==
    ASSUME TypeInv, MembersInBatch, AnyStep
    PROVE  MembersInBatch'
<1>1. /\ pending \in Seq(Deliveries) /\ future \in [Deliveries -> FutureStates]
      /\ todo \in [Deliveries -> SUBSET Deliveries] /\ batch \in [Deliveries -> Seq(Deliveries)]
  BY DEF TypeInv, BatcherTypeOK, FutureStates
<1>2. ASSUME NEW queue \in Seq(Deliveries), NEW fut, FlushNow(queue, fut)
      PROVE  MembersInBatch'
  <2> DEFINE taken == SubSeq(queue, 1, Cut(queue))
             live == {e \in {taken[i] : i \in DOMAIN taken} : fut[e] = "open"}
  <2>1. CASE live = {}
    BY <1>2, <2>1 DEF FlushNow, taskVars, MembersInBatch, Occurs
  <2>2. CASE live # {}
    <3>1. /\ batch' = [batch EXCEPT ![taken[1]] = taken]
          /\ todo' = [todo EXCEPT ![taken[1]] = live]
      BY <1>2, <2>2 DEF FlushNow
    <3>2. \A d \in live : Occurs(d, taken)
      BY DEF Occurs
    <3> HIDE DEF taken, live
    <3>3. ASSUME NEW t \in Deliveries, NEW d \in todo'[t] PROVE Occurs(d, batch'[t])
      <4>1. CASE t = taken[1]
        BY <1>1, <3>1, <3>2, <4>1
      <4>2. CASE t # taken[1]
        BY <1>1, <3>1, <4>2 DEF MembersInBatch
      <4> QED BY <4>1, <4>2
    <3> QED BY <3>3 DEF MembersInBatch, Occurs
  <2> QED BY <2>1, <2>2
<1>3. ASSUME \A t \in Deliveries : todo'[t] = {} \/ (todo'[t] \subseteq todo[t] /\ batch'[t] = batch[t])
      PROVE  MembersInBatch'
  BY <1>3 DEF MembersInBatch, Occurs
<1>4. CASE FlushTimer
  BY <1>1, <1>2, <1>4 DEF FlushTimer
<1>5. ASSUME NEW d \in Deliveries, Submit(d) PROVE MembersInBatch'
  <2>1. Append(pending, d) \in Seq(Deliveries)
    BY <1>1, AppendProperties
  <2> QED BY <1>2, <1>3, <1>5, <2>1 DEF Submit, taskVars
<1>6. ASSUME NEW d \in Deliveries, CancelWaiter(d) PROVE MembersInBatch'
  BY <1>3, <1>6 DEF CancelWaiter, taskVars
<1>7. ASSUME NEW t \in Deliveries, BeginCommit(t) PROVE MembersInBatch'
  BY <1>3, <1>7 DEF BeginCommit
<1>8. ASSUME NEW t \in Deliveries, CommitReturns(t) PROVE MembersInBatch'
  <2>1. CASE FinishTask(t)
    BY <1>1, <1>3, <2>1 DEF FinishTask
  <2>2. CASE UNCHANGED <<batch, todo>>
    BY <1>3, <2>2
  <2> QED BY <1>8, <2>1, <2>2 DEF CommitReturns, CommitOk, CommitTransient, CommitFails
<1>9. ASSUME NEW t \in Deliveries, NEW d \in Deliveries, ReplayReturns(t, d) PROVE MembersInBatch'
  <2>1. Replayed(t, d)
    BY <1>9 DEF ReplayReturns, ReplayOk, ReplayTransient, ReplayFails
  <2>2. CASE FinishTask(t)
    BY <1>1, <1>3, <2>2 DEF FinishTask
  <2>3. CASE todo' = [todo EXCEPT ![t] = todo[t] \ {d}] /\ batch' = batch
    BY <1>1, <1>3, <2>3
  <2> QED BY <2>1, <2>2, <2>3 DEF Replayed
<1> QED BY <1>4, <1>5, <1>6, <1>7, <1>8, <1>9 DEF AnyStep, TaskStep

(* A committed batch answers all its live members, each with its own verdict *)
LEMMA CommitAnswersMembers ==
    ASSUME BatcherTypeOK, MembersInBatch, NEW t \in Deliveries, CommitOk(t)
    PROVE  ResolveAll(todo[t], Verdict)
<1>1. PICK S \in SUBSET todo[t] : /\ ResolveAll(S, Verdict)
                                  /\ \A d \in todo[t] : Occurs(d, batch[t]) => d \in S
  BY AnswerIsOwnVerdict DEF CommitOk
<1>2. S = todo[t]
  BY <1>1 DEF MembersInBatch
<1> QED BY <1>1, <1>2

-----------------------------------------------------------------------------
(* Verdicts. *)

(* Every step of the batcher keeps VerdictIsCommitted: a verdict comes with the commit it reports *)
LEMMA StepVerdict ==
    ASSUME TypeInv, VerdictIsCommitted, AnyStep
    PROVE  VerdictIsCommitted'
<1>1. future \in [Deliveries -> FutureStates] /\ \A t \in Deliveries : todo[t] \subseteq Deliveries
  BY DEF TypeInv, BatcherTypeOK, FutureStates
<1>2. ASSUME NEW S, ResolveAll(S, Verdict), committed \cup {d[1] : d \in S} \subseteq committed'
      PROVE  VerdictIsCommitted'
  <2> SUFFICES ASSUME NEW d \in Deliveries, future'[d] \in Verdicts
               PROVE  d[1] \in committed' /\ future'[d] = Verdict(d)
    BY DEF VerdictIsCommitted, Verdict
  <2>1. CASE d \in S /\ future[d] = "open"
    BY <1>2, <2>1 DEF ResolveAll
  <2>2. CASE ~(d \in S /\ future[d] = "open")
    BY <1>2, <2>2 DEF ResolveAll, VerdictIsCommitted
  <2> QED BY <2>1, <2>2
<1>3. ASSUME committed \subseteq committed',
             \A d \in Deliveries : future'[d] # future[d] => future'[d] \notin Verdicts
      PROVE  VerdictIsCommitted'
  BY <1>3 DEF VerdictIsCommitted, Verdict
<1>4. ASSUME NEW S, NEW outcome \in {"transient", "failed"}, Fail(S, outcome), committed \subseteq committed'
      PROVE  VerdictIsCommitted'
  <2>1. outcome \notin Verdicts
    BY DEF Verdicts
  <2> QED BY <1>3, <1>4, <2>1 DEF Fail, ResolveAll
<1>5. CASE FlushTimer
  BY <1>3, <1>5 DEF FlushTimer, graphVars
<1>6. ASSUME NEW d \in Deliveries, Submit(d) PROVE VerdictIsCommitted'
  BY <1>1, <1>3, <1>6 DEF Submit, graphVars, Verdicts
<1>7. ASSUME NEW d \in Deliveries, CancelWaiter(d) PROVE VerdictIsCommitted'
  BY <1>1, <1>3, <1>7 DEF CancelWaiter, graphVars, Verdicts
<1>8. ASSUME NEW t \in Deliveries, BeginCommit(t) PROVE VerdictIsCommitted'
  BY <1>3, <1>8 DEF BeginCommit, graphVars
<1>9. ASSUME NEW t \in Deliveries, CommitReturns(t) PROVE VerdictIsCommitted'
  <2>1. CASE CommitOk(t)
    <3>1. PICK S \in SUBSET todo[t] : ResolveAll(S, Verdict)
      BY <2>1, AnswerIsOwnVerdict DEF CommitOk, TypeInv
    <3>2. committed \cup {d[1] : d \in S} \subseteq committed'
      BY <2>1 DEF CommitOk, ApplyBatch
    <3> QED BY <1>2, <3>1, <3>2
  <2>2. CASE CommitTransient(t)
    BY <1>4, <2>2 DEF CommitTransient, ApplyBatch, graphVars
  <2>3. CASE CommitFails(t)
    <3>1. CASE Fail(todo[t], "failed")
      BY <1>4, <2>3, <3>1 DEF CommitFails, graphVars
    <3>2. CASE UNCHANGED future
      BY <1>3, <2>3, <3>2 DEF CommitFails, graphVars
    <3> QED BY <2>3, <3>1, <3>2 DEF CommitFails
  <2> QED BY <1>9, <2>1, <2>2, <2>3 DEF CommitReturns
<1>10. ASSUME NEW t \in Deliveries, NEW d \in Deliveries, ReplayReturns(t, d) PROVE VerdictIsCommitted'
  <2>1. CASE ReplayOk(t, d)
    BY <1>2, <2>1 DEF ReplayOk, ApplyOne
  <2>2. CASE ReplayTransient(t, d)
    BY <1>4, <2>2 DEF ReplayTransient, ApplyOne, graphVars
  <2>3. CASE ReplayFails(t, d)
    BY <1>4, <2>3 DEF ReplayFails, graphVars
  <2> QED BY <1>10, <2>1, <2>2, <2>3 DEF ReplayReturns
<1> QED BY <1>5, <1>6, <1>7, <1>8, <1>9, <1>10 DEF AnyStep, TaskStep

(***************************************************************************)
(* A delivery is told a verdict only for its own committed record, however *)
(* batches, replays and cancelled waiters interleave (_write, _replay),    *)
(* and it is what a write of that record alone says: the position of a     *)
(* member in the live batch is that of its flag (zip), and an earlier      *)
(* duplicate has the flag of the last one, whose node is its own.          *)
(***************************************************************************)
THEOREM VerdictsAreCommitted == BatcherSpec => []VerdictIsCommitted
<1> DEFINE Inv == TypeInv /\ VerdictIsCommitted
<1>1. BatcherInit => Inv
  BY InitType DEF BatcherInit, VerdictIsCommitted, Verdicts
<1>2. Inv /\ [BatcherNext]_batcherVars => Inv'
  <2>1. Inv /\ BatcherNext => Inv'
    BY StepType, StepLock, StepVerdict, NextIsAnyStep DEF TypeInv
  <2>2. Inv /\ UNCHANGED batcherVars => Inv'
    BY StutterType DEF batcherVars, graphVars, VerdictIsCommitted, Verdict
  <2> QED BY <2>1, <2>2
<1>3. Inv => VerdictIsCommitted
  OBVIOUS
<1> QED BY <1>1, <1>2, <1>3, PTL DEF BatcherSpec

-----------------------------------------------------------------------------
(* No orphaned waiter. *)

NoDuplicates(queue) == \A i, j \in DOMAIN queue : queue[i] = queue[j] => i = j

(***************************************************************************)
(* A delivery that waits, or names a flush task, was submitted; none does  *)
(* both, and none waits twice.  So a new flush task never takes the name   *)
(* of a live one, and with it the members that one still has to answer.    *)
(***************************************************************************)
Fresh ==
    /\ NoDuplicates(pending)
    /\ \A d \in Deliveries : Occurs(d, pending) => future[d] # "none" /\ stage[d] = "none"
    /\ \A t \in Deliveries : stage[t] # "none" => future[t] # "none"

WaiterInv == TypeInv /\ MembersInBatch /\ Fresh /\ NoOrphanedWaiter

(* Somebody will answer d *)
Answerable(d) ==
    \/ timer /\ Occurs(d, pending)
    \/ \E t \in Deliveries : stage[t] # "none" /\ d \in todo[t]

(* NoOrphanedWaiter, in terms of Answerable *)
LEMMA NoOrphanedWaiterAlt ==
    NoOrphanedWaiter <=> \A d \in Deliveries : future[d] = "open" => Answerable(d)
BY DEF NoOrphanedWaiter, Waiting, Answerable, Occurs

(* _flush_now keeps Fresh and loses neither a queued waiter nor a member of a live flush task *)
LEMMA FlushNowFresh ==
    ASSUME TypeInv,
           NEW queue \in Seq(Deliveries),
           NEW fut \in [Deliveries -> FutureStates],
           NoDuplicates(queue),
           \A d \in Deliveries : Occurs(d, queue) => fut[d] # "none" /\ stage[d] = "none",
           \A t \in Deliveries : stage[t] # "none" => fut[t] # "none",
           FlushNow(queue, fut), future' = fut
    PROVE  /\ Fresh'
           /\ \A d \in Deliveries : fut[d] = "open" /\ Occurs(d, queue) => Answerable(d)'
           /\ \A d, t \in Deliveries : stage[t] # "none" /\ d \in todo[t] => Answerable(d)'
<1> DEFINE c == Cut(queue)
           taken == SubSeq(queue, 1, c)
           rest == SubSeq(queue, c + 1, Len(queue))
           live == {d \in {taken[i] : i \in DOMAIN taken} : fut[d] = "open"}
<1>1. /\ c \in 0 .. Len(queue) /\ Len(queue) \in Nat /\ DOMAIN queue = 1 .. Len(queue)
      /\ DOMAIN taken = 1 .. c
      /\ \A i \in 1 .. c : taken[i] = queue[i]
      /\ DOMAIN rest = 1 .. (Len(queue) - c)
      /\ \A i \in 1 .. (Len(queue) - c) : rest[i] = queue[c + i]
  BY Split, LenProperties
<1>2. pending' = rest /\ timer' = (rest # <<>>)
  BY DEF FlushNow
<1>3. /\ live = {} => UNCHANGED <<stage, todo>>
      /\ live # {} => /\ stage' = [stage EXCEPT ![taken[1]] = "created"]
                      /\ todo' = [todo EXCEPT ![taken[1]] = live]
  BY DEF FlushNow, taskVars
<1>4. /\ stage \in [Deliveries -> {"none", "created", "commit", "replay"}]
      /\ todo \in [Deliveries -> SUBSET Deliveries]
      /\ \A i \in 1 .. Len(queue) : queue[i] \in Deliveries
  BY <1>1, ElementOfSeq DEF TypeInv, BatcherTypeOK
<1> HIDE DEF c, taken, rest
<1>5. NoDuplicates(rest)
  <2> SUFFICES ASSUME NEW i \in DOMAIN rest, NEW j \in DOMAIN rest, rest[i] = rest[j]
               PROVE  i = j
    BY DEF NoDuplicates
  <2>1. c + i \in DOMAIN queue /\ c + j \in DOMAIN queue /\ queue[c + i] = queue[c + j]
    BY <1>1
  <2>2. c + i = c + j
    BY <2>1 DEF NoDuplicates
  <2> QED BY <1>1, <2>2
<1>6. \A d \in Deliveries : Occurs(d, rest) => Occurs(d, queue) /\ (live # {} => d # taken[1])
  <2> SUFFICES ASSUME NEW d \in Deliveries, NEW i \in DOMAIN rest, rest[i] = d
               PROVE  Occurs(d, queue) /\ (live # {} => d # taken[1])
    BY DEF Occurs
  <2>1. c + i \in DOMAIN queue /\ queue[c + i] = d
    BY <1>1
  <2>2. ASSUME live # {} PROVE d # taken[1]
    <3>1. 1 \in DOMAIN taken /\ 1 \in DOMAIN queue /\ taken[1] = queue[1]
      BY <1>1, <2>2
    <3>2. c + i # 1
      BY <1>1, <3>1
    <3> QED BY <2>1, <3>1, <3>2 DEF NoDuplicates
  <2> QED BY <2>1, <2>2 DEF Occurs
<1>7. live # {} => /\ taken[1] \in Deliveries
                   /\ Occurs(taken[1], queue)
                   /\ stage[taken[1]] = "none"
  <2> SUFFICES ASSUME live # {}
               PROVE  taken[1] \in Deliveries /\ Occurs(taken[1], queue)
    OBVIOUS
  <2>1. 1 \in 1 .. c /\ 1 \in 1 .. Len(queue) /\ taken[1] = queue[1]
    BY <1>1
  <2> QED BY <1>1, <1>4, <2>1 DEF Occurs
<1>8. Fresh'
  <2>1. NoDuplicates(pending)'
    BY <1>2, <1>5 DEF NoDuplicates
  <2>2. \A d \in Deliveries : Occurs(d, pending)' => future'[d] # "none" /\ stage'[d] = "none"
    BY <1>2, <1>3, <1>4, <1>6, <1>7 DEF Occurs
  <2>3. \A t \in Deliveries : stage'[t] # "none" => future'[t] # "none"
    BY <1>3, <1>4, <1>7
  <2> QED BY <2>1, <2>2, <2>3 DEF Fresh, Occurs
<1>9. ASSUME NEW d \in Deliveries, fut[d] = "open", Occurs(d, queue) PROVE Answerable(d)'
  <2>1. PICK i \in DOMAIN queue : queue[i] = d
    BY <1>9 DEF Occurs
  <2>2. CASE i <= c
    <3>1. i \in DOMAIN taken /\ taken[i] = d
      BY <1>1, <2>1, <2>2
    <3>2. d \in live
      BY <1>9, <3>1
    <3> QED BY <1>3, <1>4, <1>7, <3>2 DEF Answerable
  <2>3. CASE ~(i <= c)
    <3>1. i - c \in DOMAIN rest /\ rest[i - c] = d
      BY <1>1, <2>1, <2>3
    <3>2. rest # <<>>
      BY <3>1
    <3> QED BY <1>2, <3>1, <3>2 DEF Answerable, Occurs
  <2> QED BY <2>2, <2>3
<1>10. ASSUME NEW d \in Deliveries, NEW t \in Deliveries, stage[t] # "none", d \in todo[t]
       PROVE  Answerable(d)'
  BY <1>3, <1>4, <1>7, <1>10 DEF Answerable
<1> QED BY <1>8, <1>9, <1>10

(* A step that leaves no future of S open and opens none *)
Answers(S) ==
    \A d \in Deliveries : /\ future'[d] = "open" => future[d] = "open" /\ d \notin S
                          /\ future[d] # "none" => future'[d] # "none"

(* A step after which the flush tasks still have all their members but those of S *)
KeepsMembers(S) ==
    \A t \in Deliveries : /\ stage'[t] # "none" => stage[t] # "none"
                          /\ stage[t] # "none" =>
                                 \A d \in todo[t] \ S : stage'[t] # "none" /\ d \in todo'[t]

(* A flush task that answers S and forgets no other member orphans nobody *)
LEMMA AnswerStep ==
    ASSUME WaiterInv, NEW S,
           UNCHANGED <<pending, timer>>, Answers(S), KeepsMembers(S)
    PROVE  Fresh' /\ NoOrphanedWaiter'
<1> USE DEF Answers, KeepsMembers
<1>1. Fresh'
  BY DEF WaiterInv, Fresh, NoDuplicates, Occurs
<1>2. ASSUME NEW d \in Deliveries, future'[d] = "open"
      PROVE  (timer' /\ d \in Waiting') \/ \E t \in Deliveries : stage'[t] # "none" /\ d \in todo'[t]
  <2>1. future[d] = "open" /\ d \notin S
    BY <1>2
  <2>2. CASE timer /\ d \in Waiting
    BY <2>2 DEF Waiting
  <2>3. ASSUME NEW t \in Deliveries, stage[t] # "none", d \in todo[t]
        PROVE  stage'[t] # "none" /\ d \in todo'[t]
    BY <2>1, <2>3
  <2> QED BY <2>1, <2>2, <2>3 DEF WaiterInv, NoOrphanedWaiter
<1>3. NoOrphanedWaiter'
  BY <1>2 DEF NoOrphanedWaiter
<1> QED BY <1>1, <1>3

(* Answering or failing S answers S *)
LEMMA ResolveAllOpens ==
    ASSUME BatcherTypeOK, NEW S,
           ResolveAll(S, Verdict) \/ \E outcome \in {"transient", "failed"} : Fail(S, outcome)
    PROVE  Answers(S)
<1> SUFFICES ASSUME NEW d \in Deliveries
             PROVE  /\ future'[d] = "open" => future[d] = "open" /\ d \notin S
                    /\ future[d] # "none" => future'[d] # "none"
  BY DEF Answers
<1>1. Verdict(d) # "open" /\ Verdict(d) # "none"
  BY DEF Verdict
<1>2. CASE ResolveAll(S, Verdict)
  BY <1>1, <1>2 DEF ResolveAll
<1>3. ASSUME NEW outcome \in {"transient", "failed"}, Fail(S, outcome)
      PROVE  /\ future'[d] = "open" => future[d] = "open" /\ d \notin S
             /\ future[d] # "none" => future'[d] # "none"
  BY <1>3 DEF Fail, ResolveAll
<1> QED BY <1>2, <1>3

(* A submission orphans nobody, itself included *)
LEMMA SubmitWaiter ==
    ASSUME WaiterInv, NEW e \in Deliveries, Submit(e)
    PROVE  Fresh' /\ NoOrphanedWaiter'
<1> DEFINE queue == Append(pending, e)
           fut == [future EXCEPT ![e] = "open"]
<1>1. /\ pending \in Seq(Deliveries)
      /\ future \in [Deliveries -> FutureStates]
      /\ future[e] = "none" /\ future' = fut
  BY DEF Submit, WaiterInv, TypeInv, BatcherTypeOK, FutureStates
<1>2. /\ queue \in Seq(Deliveries)
      /\ Len(pending) \in Nat
      /\ DOMAIN pending = 1 .. Len(pending)
      /\ DOMAIN queue = 1 .. Len(pending) + 1
      /\ queue[Len(pending) + 1] = e
      /\ \A i \in DOMAIN pending : queue[i] = pending[i]
  BY <1>1, AppendProperties, LenProperties
<1>3. fut \in [Deliveries -> FutureStates]
  BY <1>1 DEF FutureStates
<1>4. \A d \in Deliveries : fut[d] = IF d = e THEN "open" ELSE future[d]
  BY <1>1
<1> HIDE DEF queue, fut
<1>5. ~Occurs(e, pending) /\ stage[e] = "none"
  BY <1>1 DEF WaiterInv, Fresh
<1>6. NoDuplicates(queue)
  BY <1>2, <1>5 DEF NoDuplicates, Occurs, WaiterInv, Fresh
<1>7. \A d \in Deliveries : Occurs(d, queue) <=> (d = e \/ Occurs(d, pending))
  <2>1. Len(pending) + 1 \in DOMAIN queue
    BY <1>2
  <2> QED BY <1>2, <2>1 DEF Occurs
<1>8. /\ \A d \in Deliveries : Occurs(d, queue) => fut[d] # "none" /\ stage[d] = "none"
      /\ \A t \in Deliveries : stage[t] # "none" => fut[t] # "none"
  BY <1>4, <1>5, <1>7 DEF WaiterInv, Fresh
<1>9. \A d \in Deliveries : fut[d] = "open" =>
          Occurs(d, queue) \/ \E t \in Deliveries : stage[t] # "none" /\ d \in todo[t]
  BY <1>4, <1>7, NoOrphanedWaiterAlt DEF WaiterInv, Answerable
<1>10. CASE FlushNow(queue, fut)
  <2>1. /\ Fresh'
        /\ \A d \in Deliveries : fut[d] = "open" /\ Occurs(d, queue) => Answerable(d)'
        /\ \A d, t \in Deliveries : stage[t] # "none" /\ d \in todo[t] => Answerable(d)'
    BY <1>1, <1>2, <1>3, <1>6, <1>8, <1>10, FlushNowFresh DEF WaiterInv
  <2>2. \A d \in Deliveries : future'[d] = "open" => Answerable(d)'
    BY <1>1, <1>9, <2>1
  <2>3. NoOrphanedWaiter'
    BY <2>2 DEF NoOrphanedWaiter, Answerable, Waiting, Occurs
  <2> QED BY <2>1, <2>3
<1>11. CASE pending' = queue /\ timer' = TRUE /\ UNCHANGED taskVars
  <2>1. UNCHANGED <<stage, todo>>
    BY <1>11 DEF taskVars
  <2>2. Fresh'
    BY <1>1, <1>6, <1>8, <1>11, <2>1 DEF Fresh, NoDuplicates, Occurs
  <2>3. NoOrphanedWaiter'
    BY <1>1, <1>9, <1>11, <2>1 DEF NoOrphanedWaiter, Waiting, Occurs
  <2> QED BY <2>2, <2>3
<1> QED BY <1>10, <1>11 DEF Submit, queue, fut

(* No step of the batcher orphans a waiter *)
LEMMA StepWaiter ==
    ASSUME WaiterInv, AnyStep
    PROVE  Fresh' /\ NoOrphanedWaiter'
<1>1. /\ BatcherTypeOK /\ pending \in Seq(Deliveries)
      /\ future \in [Deliveries -> FutureStates]
      /\ stage \in [Deliveries -> {"none", "created", "commit", "replay"}]
      /\ todo \in [Deliveries -> SUBSET Deliveries]
  BY DEF WaiterInv, TypeInv, BatcherTypeOK, FutureStates
<1>2. CASE FlushTimer
  <2>1. FlushNow(pending, future) /\ future' = future
    BY <1>2 DEF FlushTimer
  <2>2. /\ Fresh'
        /\ \A d \in Deliveries : future[d] = "open" /\ Occurs(d, pending) => Answerable(d)'
        /\ \A d, t \in Deliveries : stage[t] # "none" /\ d \in todo[t] => Answerable(d)'
    BY <1>1, <2>1, FlushNowFresh DEF WaiterInv, Fresh
  <2>3. \A d \in Deliveries : future'[d] = "open" => Answerable(d)'
    BY <2>1, <2>2, NoOrphanedWaiterAlt DEF WaiterInv, Answerable
  <2>4. NoOrphanedWaiter'
    BY <2>3 DEF NoOrphanedWaiter, Answerable, Waiting, Occurs
  <2> QED BY <2>2, <2>4
<1>3. ASSUME NEW d \in Deliveries, Submit(d) PROVE Fresh' /\ NoOrphanedWaiter'
  BY <1>3, SubmitWaiter
<1>4. ASSUME NEW d \in Deliveries, CancelWaiter(d) PROVE Fresh' /\ NoOrphanedWaiter'
  <2>1. /\ future[d] = "open" /\ future' = [future EXCEPT ![d] = "cancelled"]
        /\ UNCHANGED <<pending, timer, stage, todo>>
    BY <1>4 DEF CancelWaiter, taskVars
  <2>2. Answers({d}) /\ KeepsMembers({})
    BY <1>1, <2>1 DEF Answers, KeepsMembers
  <2>3. Answers({})
    BY <2>2 DEF Answers
  <2> QED BY <2>1, <2>2, <2>3, AnswerStep
<1>5. ASSUME NEW t \in Deliveries, BeginCommit(t) PROVE Fresh' /\ NoOrphanedWaiter'
  <2>1. /\ stage[t] = "created" /\ stage' = [stage EXCEPT ![t] = "commit"]
        /\ UNCHANGED <<pending, timer, future, todo>>
    BY <1>5 DEF BeginCommit
  <2>2. Answers({}) /\ KeepsMembers({})
    BY <1>1, <2>1 DEF Answers, KeepsMembers
  <2> QED BY <2>1, <2>2, AnswerStep
<1>6. ASSUME NEW t \in Deliveries, CommitReturns(t) PROVE Fresh' /\ NoOrphanedWaiter'
  <2>1. stage[t] = "commit" /\ UNCHANGED <<pending, timer>>
    BY <1>6 DEF CommitReturns, CommitOk, CommitTransient, CommitFails
  <2>2. CASE /\ FinishTask(t)
             /\ \/ ResolveAll(todo[t], Verdict)
                \/ \E outcome \in {"transient", "failed"} : Fail(todo[t], outcome)
    <3>1. Answers(todo[t])
      BY <1>1, <2>2, ResolveAllOpens
    <3>2. KeepsMembers(todo[t])
      BY <1>1, <2>1, <2>2 DEF FinishTask, KeepsMembers
    <3> QED BY <2>1, <3>1, <3>2, AnswerStep
  <2>3. CASE stage' = [stage EXCEPT ![t] = "replay"] /\ UNCHANGED <<future, todo>>
    <3>1. Answers({}) /\ KeepsMembers({})
      BY <1>1, <2>1, <2>3 DEF Answers, KeepsMembers
    <3> QED BY <2>1, <3>1, AnswerStep
  <2>4. CASE CommitOk(t)
    <3>1. ResolveAll(todo[t], Verdict)
      BY <1>1, <2>4, CommitAnswersMembers DEF WaiterInv
    <3> QED BY <2>2, <2>4, <3>1 DEF CommitOk
  <2> QED BY <1>6, <2>2, <2>3, <2>4 DEF CommitReturns, CommitTransient, CommitFails
<1>7. ASSUME NEW t \in Deliveries, NEW d \in Deliveries, ReplayReturns(t, d)
      PROVE  Fresh' /\ NoOrphanedWaiter'
  <2>1. /\ Replayed(t, d) /\ UNCHANGED <<pending, timer>>
        /\ \/ ResolveAll({d}, Verdict)
           \/ \E outcome \in {"transient", "failed"} : Fail({d}, outcome)
    BY <1>7 DEF ReplayReturns, ReplayOk, ReplayTransient, ReplayFails
  <2>2. stage[t] = "replay"
    BY <1>7 DEF ReplayReturns, ReplayOk, ReplayTransient, ReplayFails, NextToReplay
  <2>3. Answers({d})
    BY <1>1, <2>1, ResolveAllOpens
  <2>4. CASE todo[t] = {d}
    <3>1. KeepsMembers({d})
      BY <1>1, <2>1, <2>2, <2>4 DEF Replayed, FinishTask, KeepsMembers
    <3> QED BY <2>1, <2>3, <3>1, AnswerStep
  <2>5. CASE todo[t] # {d}
    <3>1. todo' = [todo EXCEPT ![t] = todo[t] \ {d}] /\ UNCHANGED stage
      BY <2>1, <2>5 DEF Replayed
    <3>2. KeepsMembers({d})
      BY <1>1, <2>2, <3>1 DEF KeepsMembers
    <3> QED BY <2>1, <2>3, <3>2, AnswerStep
  <2> QED BY <2>4, <2>5
<1> QED BY <1>2, <1>3, <1>4, <1>5, <1>6, <1>7 DEF AnyStep, TaskStep

(***************************************************************************)
(* No delivery waits on a future nobody will complete.  The invariant      *)
(* needs Fresh: a flush task overwrites no live one (_flush_now).          *)
(***************************************************************************)
THEOREM NoWaiterOrphaned == BatcherSpec => []NoOrphanedWaiter
<1>1. BatcherInit => WaiterInv
  BY InitType DEF BatcherInit, WaiterInv, MembersInBatch, Fresh, NoDuplicates, Occurs, NoOrphanedWaiter
<1>2. WaiterInv /\ [BatcherNext]_batcherVars => WaiterInv'
  <2>1. WaiterInv /\ BatcherNext => WaiterInv'
    BY StepType, StepLock, StepMembersInBatch, StepWaiter, NextIsAnyStep DEF WaiterInv, TypeInv
  <2>2. WaiterInv /\ UNCHANGED batcherVars => WaiterInv'
    BY StutterType DEF WaiterInv, batcherVars, taskVars, MembersInBatch, Fresh, NoDuplicates, Occurs,
                       NoOrphanedWaiter, Waiting
  <2> QED BY <2>1, <2>2
<1>3. WaiterInv => NoOrphanedWaiter
  BY DEF WaiterInv
<1> QED BY <1>1, <1>2, <1>3, PTL DEF BatcherSpec

-----------------------------------------------------------------------------
(* What a batcher step commits, for the modules that use the batcher. *)

(* A record the batcher has taken and not yet written *)
Member(d) == Occurs(d, pending) \/ \E t \in Deliveries : d \in todo[t]

(* _flush_now takes nothing but what was queued *)
LEMMA FlushNowMembers ==
    ASSUME TypeInv,
           NEW queue \in Seq(Deliveries), NEW fut \in [Deliveries -> FutureStates],
           FlushNow(queue, fut),
           NEW d \in Deliveries, Member(d)'
    PROVE  Occurs(d, queue) \/ \E t \in Deliveries : d \in todo[t]
<1> DEFINE c == Cut(queue)
           taken == SubSeq(queue, 1, c)
           rest == SubSeq(queue, c + 1, Len(queue))
           live == {e \in {taken[i] : i \in DOMAIN taken} : fut[e] = "open"}
<1>1. /\ c \in 0 .. Len(queue) /\ Len(queue) \in Nat /\ DOMAIN queue = 1 .. Len(queue)
      /\ DOMAIN taken = 1 .. c
      /\ \A i \in 1 .. c : taken[i] = queue[i]
      /\ DOMAIN rest = 1 .. (Len(queue) - c)
      /\ \A i \in 1 .. (Len(queue) - c) : rest[i] = queue[c + i]
  BY Split, LenProperties
<1>2. /\ pending' = rest
      /\ todo' = todo \/ todo' = [todo EXCEPT ![taken[1]] = live]
  BY DEF FlushNow, taskVars
<1>3. todo \in [Deliveries -> SUBSET Deliveries]
  BY DEF TypeInv, BatcherTypeOK
<1> HIDE DEF c, taken, rest
<1>4. CASE Occurs(d, rest)
  <2>1. PICK i \in DOMAIN rest : rest[i] = d
    BY <1>4 DEF Occurs
  <2>2. c + i \in DOMAIN queue /\ queue[c + i] = d
    BY <1>1, <2>1
  <2> QED BY <2>2 DEF Occurs
<1>5. CASE d \in live
  <2>1. PICK i \in DOMAIN taken : taken[i] = d
    BY <1>5
  <2>2. i \in DOMAIN queue /\ queue[i] = d
    BY <1>1, <2>1
  <2> QED BY <2>2 DEF Occurs
<1> HIDE DEF live
<1>6. Occurs(d, rest) \/ d \in live \/ \E t \in Deliveries : d \in todo[t]
  BY <1>2, <1>3 DEF Member, Occurs
<1> QED BY <1>4, <1>5, <1>6

(* Submission adds the submitted record and no other *)
LEMMA SubmitMembers ==
    ASSUME TypeInv, NEW e \in Deliveries, Submit(e), NEW d \in Deliveries, Member(d)'
    PROVE  d = e \/ Member(d)
<1>1. pending \in Seq(Deliveries) /\ future \in [Deliveries -> FutureStates]
  BY DEF TypeInv, BatcherTypeOK, FutureStates
<1>2. /\ Append(pending, e) \in Seq(Deliveries)
      /\ [future EXCEPT ![e] = "open"] \in [Deliveries -> FutureStates]
  BY <1>1, AppendProperties DEF FutureStates
<1>3. Occurs(d, Append(pending, e)) => d = e \/ Occurs(d, pending)
  BY <1>1, AppendProperties, LenProperties DEF Occurs
<1>4. CASE FlushNow(Append(pending, e), [future EXCEPT ![e] = "open"])
  BY <1>2, <1>3, <1>4, FlushNowMembers DEF Member
<1>5. CASE pending' = Append(pending, e) /\ UNCHANGED taskVars
  BY <1>3, <1>5 DEF Member, Occurs, taskVars
<1> QED BY <1>4, <1>5 DEF Submit

(* The timer, the flush tasks and cancelled waiters add none *)
LEMMA TaskMembers ==
    ASSUME TypeInv, TaskStep \/ \E e \in Deliveries : CancelWaiter(e),
           NEW d \in Deliveries, Member(d)'
    PROVE  Member(d)
<1>1. /\ pending \in Seq(Deliveries) /\ future \in [Deliveries -> FutureStates]
      /\ todo \in [Deliveries -> SUBSET Deliveries]
  BY DEF TypeInv, BatcherTypeOK, FutureStates
<1>2. CASE FlushTimer
  BY <1>1, <1>2, FlushNowMembers DEF FlushTimer, Member
<1>3. ASSUME pending' = pending, \A t \in Deliveries : todo'[t] \subseteq todo[t] PROVE Member(d)
  BY <1>3 DEF Member, Occurs
<1>4. ASSUME NEW e \in Deliveries, CancelWaiter(e) PROVE Member(d)
  BY <1>3, <1>4 DEF CancelWaiter, taskVars
<1>5. ASSUME NEW t \in Deliveries, BeginCommit(t) PROVE Member(d)
  BY <1>3, <1>5 DEF BeginCommit
<1>6. ASSUME NEW t \in Deliveries, CommitReturns(t) PROVE Member(d)
  <2>1. pending' = pending /\ (todo' = todo \/ todo' = [todo EXCEPT ![t] = {}])
    BY <1>6 DEF CommitReturns, CommitOk, CommitTransient, CommitFails, FinishTask
  <2> QED BY <1>1, <1>3, <2>1
<1>7. ASSUME NEW t \in Deliveries, NEW e \in Deliveries, ReplayReturns(t, e) PROVE Member(d)
  <2>1. pending' = pending /\ Replayed(t, e)
    BY <1>7 DEF ReplayReturns, ReplayOk, ReplayTransient, ReplayFails
  <2>2. \E S \in SUBSET todo[t] : todo' = [todo EXCEPT ![t] = S]
    BY <2>1 DEF Replayed, FinishTask
  <2> QED BY <1>1, <1>3, <2>1, <2>2
<1> QED BY <1>2, <1>4, <1>5, <1>6, <1>7 DEF TaskStep

(* A step writes nothing, one whole batch or one replayed member *)
LEMMA StepWrites ==
    ASSUME TypeInv, AnyStep
    PROVE  \/ UNCHANGED <<graph, committed>>
           \/ \E t \in Deliveries : ApplyBatch(t) /\ ~PoisonedBatch(t)
           \/ \E t \in Deliveries : \E d \in todo[t] : ApplyOne(d) /\ d[1] \notin Poison
BY DEF AnyStep, TaskStep, FlushTimer, Submit, CancelWaiter, BeginCommit, CommitReturns, CommitOk,
       CommitTransient, CommitFails, ReplayReturns, ReplayOk, ReplayTransient, ReplayFails,
       NextToReplay, graphVars

(* Nothing committed is taken back, and only sound members are committed *)
LEMMA StepCommitted ==
    ASSUME TypeInv, AnyStep
    PROVE  /\ committed \subseteq committed'
           /\ \A r \in committed' \ committed :
                  r \notin Poison /\ \E d \in Deliveries : Member(d) /\ d[1] = r
<1>1. \A t \in Deliveries : todo[t] \subseteq Deliveries
  BY DEF TypeInv, BatcherTypeOK
<1> QED BY <1>1, StepWrites DEF ApplyBatch, ApplyOne, PoisonedBatch, Member

(* A committed record left a projection on the node it targets *)
OnNode == \A r \in committed : Target[r] # NoNode => graph[Target[r]] # 0

(* Writing one record keeps OnNode *)
LEMMA ApplyOneOnNode ==
    ASSUME BatcherTypeOK, OnNode, NEW d \in Deliveries, ApplyOne(d)
    PROVE  OnNode'
<1>1. d[1] \in Records /\ d[1] # 0
  BY RecordsAssumption DEF Deliveries
<1>2. ASSUME NEW r \in committed', Target[r] # NoNode PROVE graph'[Target[r]] # 0
  <2>1. r \in Records /\ Target[r] \in Nodes
    BY <1>1, <1>2, TargetAssumption DEF ApplyOne, BatcherTypeOK
  <2>2. CASE Target[d[1]] = Target[r]
    BY <1>1, <2>1, <2>2 DEF ApplyOne, Enriches
  <2>3. CASE Target[d[1]] # Target[r]
    BY <1>2, <2>1, <2>3 DEF ApplyOne, Enriches, OnNode
  <2> QED BY <2>2, <2>3
<1> QED BY <1>2 DEF OnNode

(* A committed record is on its node, whatever its batch collapsed to *)
LEMMA StepOnNode ==
    ASSUME TypeInv, MembersInBatch, OnNode, AnyStep
    PROVE  OnNode'
<1>1. CASE UNCHANGED <<graph, committed>>
  BY <1>1 DEF OnNode
<1>2. ASSUME NEW t \in Deliveries, NEW d \in todo[t], ApplyOne(d) PROVE OnNode'
  <2>1. d \in Deliveries
    BY DEF TypeInv, BatcherTypeOK
  <2> QED BY <1>2, <2>1, ApplyOneOnNode DEF TypeInv
<1>3. ASSUME NEW t \in Deliveries, ApplyBatch(t) PROVE OnNode'
  <2>1. \A n \in Nodes : Positions(t, n) # {} => graph'[n] \in Records
    BY <1>3, ApplyBatchType DEF TypeInv
  <2>2. todo[t] \subseteq Deliveries /\ committed \subseteq Records
    BY DEF TypeInv, BatcherTypeOK
  <2>3. ASSUME NEW r \in committed', Target[r] # NoNode PROVE graph'[Target[r]] # 0
    <3>1. r \in committed \/ \E d \in todo[t] : r = d[1]
      BY <1>3 DEF ApplyBatch
    <3>2. r \in Records /\ Target[r] \in Nodes
      BY <2>2, <2>3, <3>1, TargetAssumption DEF Deliveries
    <3>3. CASE Positions(t, Target[r]) # {}
      BY <2>1, <3>2, <3>3, RecordsAssumption
    <3>4. CASE Positions(t, Target[r]) = {}
      <4>1. ~\E d \in todo[t] : r = d[1]
        BY <3>4 DEF MembersInBatch, Occurs, Positions, Enriches
      <4>2. graph'[Target[r]] = graph[Target[r]]
        BY <1>3, <3>2, <3>4 DEF ApplyBatch
      <4> QED BY <2>3, <3>1, <4>1, <4>2 DEF OnNode
    <3> QED BY <3>3, <3>4
  <2> QED BY <2>3 DEF OnNode
<1> QED BY <1>1, <1>2, <1>3, StepWrites

-----------------------------------------------------------------------------
(* Neighbours of a poison record. *)

SparedInv ==
    /\ TypeInv
    /\ MembersInBatch
    /\ IsFiniteSet(SpareFailures)
    /\ NeighboursSpared

(* A flush task has finitely many members to write *)
LEMMA FiniteTodo ==
    ASSUME TypeInv, MembersInBatch, NEW t \in Deliveries
    PROVE  IsFiniteSet(todo[t])
<1> DEFINE b == batch[t]
           members == {b[i] : i \in DOMAIN b}
<1>1. b \in Seq(Deliveries) BY DEF TypeInv, BatcherTypeOK
<1> HIDE DEF b
<1>2. b \in Seq(members) /\ \A d \in members : \E i \in 1 .. Len(b) : b[i] = d
  BY <1>1, LenProperties
<1>3. IsFiniteSet(members) BY <1>2 DEF IsFiniteSet
<1>4. todo[t] \in SUBSET members BY DEF MembersInBatch, Occurs, b
<1> HIDE DEF members
<1> QED BY <1>3, <1>4, FS_Subset

(* An error fails at most one sound record more *)
LEMMA OneMoreSpare ==
    ASSUME SparedInv, errors' \in Nat,
           \/ SpareFailures' \subseteq SpareFailures /\ errors' >= errors
           \/ \E d : SpareFailures' \subseteq SpareFailures \cup {d} /\ errors' = errors + 1
    PROVE  IsFiniteSet(SpareFailures') /\ Cardinality(SpareFailures') <= errors'
<1>1. /\ IsFiniteSet(SpareFailures) /\ Cardinality(SpareFailures) \in Nat
      /\ Cardinality(SpareFailures) <= errors /\ errors \in Nat
  BY FS_CardinalityType DEF SparedInv, NeighboursSpared, TypeInv, BatcherTypeOK
<1>2. ASSUME NEW S, IsFiniteSet(S), Cardinality(S) <= errors', SpareFailures' \in SUBSET S
      PROVE  IsFiniteSet(SpareFailures') /\ Cardinality(SpareFailures') <= errors'
  <2>1. Cardinality(S) \in Nat BY <1>2, FS_CardinalityType
  <2>2. IsFiniteSet(SpareFailures') /\ Cardinality(SpareFailures') <= Cardinality(S)
    BY <1>2, FS_Subset
  <2>3. Cardinality(SpareFailures') \in Nat BY <2>2, FS_CardinalityType
  <2> QED BY <1>2, <2>1, <2>2, <2>3
<1>3. CASE SpareFailures' \subseteq SpareFailures /\ errors' >= errors
  BY <1>1, <1>2, <1>3
<1>4. CASE \E d : SpareFailures' \subseteq SpareFailures \cup {d} /\ errors' = errors + 1
  <2> PICK d : SpareFailures' \subseteq SpareFailures \cup {d} /\ errors' = errors + 1
    BY <1>4
  <2>1. /\ IsFiniteSet(SpareFailures \cup {d})
        /\ Cardinality(SpareFailures \cup {d}) <= errors + 1
    BY <1>1, FS_AddElement
  <2> QED BY <1>2, <2>1
<1> QED BY <1>3, <1>4

(* Every step of the batcher keeps SparedInv: a failed batch of several fails nobody by itself *)
LEMMA StepSpared ==
    ASSUME SparedInv, AnyStep
    PROVE  SparedInv'
<1> DEFINE Calm == SpareFailures' \subseteq SpareFailures /\ errors' >= errors
           OneMore == \E d : SpareFailures' \subseteq SpareFailures \cup {d} /\ errors' = errors + 1
<1>1. /\ future \in [Deliveries -> FutureStates] /\ \A t \in Deliveries : todo[t] \subseteq Deliveries
      /\ errors \in Nat
  BY DEF SparedInv, TypeInv, BatcherTypeOK, FutureStates
<1>2. TypeInv' /\ MembersInBatch'
  BY StepType, StepLock, StepMembersInBatch DEF SparedInv, TypeInv
<1>3. errors' \in Nat
  BY <1>2 DEF TypeInv, BatcherTypeOK
<1>4. ASSUME errors' = errors, \A d \in Deliveries : future'[d] = "failed" => future[d] = "failed" PROVE Calm
  BY <1>1, <1>4 DEF SpareFailures
<1>5. ASSUME NEW S, ResolveAll(S, Verdict), errors' = errors PROVE Calm
  BY <1>4, <1>5 DEF ResolveAll, Verdict
<1>6. ASSUME NEW S, Fail(S, "transient"), errors' = errors PROVE Calm
  BY <1>4, <1>6 DEF Fail, ResolveAll
<1>7. ASSUME NEW e \in Deliveries, Fail({e}, "failed"),
             (e[1] \in Poison /\ errors' = errors) \/ errors' = errors + 1
      PROVE  Calm \/ OneMore
  <2>1. SpareFailures' \subseteq SpareFailures \cup {e}
    BY <1>7 DEF SpareFailures, Fail, ResolveAll
  <2>2. e[1] \in Poison => SpareFailures' \subseteq SpareFailures
    BY <1>7, <2>1 DEF SpareFailures
  <2> QED BY <1>1, <1>7, <2>1, <2>2
<1>8. ASSUME FlushTimer PROVE Calm
  BY <1>4, <1>8 DEF FlushTimer, faultVars
<1>9. ASSUME NEW d \in Deliveries, Submit(d) PROVE Calm
  BY <1>1, <1>4, <1>9 DEF Submit, faultVars
<1>10. ASSUME NEW d \in Deliveries, CancelWaiter(d) PROVE Calm
  BY <1>1, <1>4, <1>10 DEF CancelWaiter, faultVars
<1>11. ASSUME NEW t \in Deliveries, BeginCommit(t) PROVE Calm
  BY <1>4, <1>11 DEF BeginCommit, faultVars
<1>12. ASSUME NEW t \in Deliveries, CommitReturns(t) PROVE Calm \/ OneMore
  <2>1. CASE CommitOk(t)
    <3>1. ResolveAll(todo[t], Verdict)
      BY <2>1, CommitAnswersMembers DEF SparedInv, TypeInv
    <3> QED BY <1>5, <2>1, <3>1 DEF CommitOk, faultVars
  <2>2. CASE CommitTransient(t)
    BY <1>6, <2>2 DEF CommitTransient
  <2>3. CASE CommitFails(t)
    <3>1. CASE Cardinality(todo[t]) = 1
      <4>1. PICK e : todo[t] = {e}
        BY <3>1, FiniteTodo, FS_Singleton DEF SparedInv
      <4>2. Fail({e}, "failed") /\ ((e[1] \in Poison /\ errors' = errors) \/ errors' = errors + 1)
        BY <2>3, <3>1, <4>1 DEF CommitFails, PoisonedBatch
      <4> QED BY <1>1, <1>7, <4>1, <4>2
    <3>2. CASE Cardinality(todo[t]) # 1
      <4>1. future' = future /\ errors' \in {errors, errors + 1}
        BY <2>3, <3>2 DEF CommitFails
      <4> QED BY <1>1, <4>1 DEF SpareFailures
    <3> QED BY <3>1, <3>2
  <2> QED BY <1>12, <2>1, <2>2, <2>3 DEF CommitReturns
<1>13. ASSUME NEW t \in Deliveries, NEW d \in Deliveries, ReplayReturns(t, d) PROVE Calm \/ OneMore
  <2>1. CASE ReplayOk(t, d)
    BY <1>5, <2>1 DEF ReplayOk, faultVars
  <2>2. CASE ReplayTransient(t, d)
    BY <1>6, <2>2 DEF ReplayTransient
  <2>3. CASE ReplayFails(t, d)
    BY <1>7, <2>3 DEF ReplayFails
  <2> QED BY <1>13, <2>1, <2>2, <2>3 DEF ReplayReturns
<1> HIDE DEF Calm, OneMore
<1>14. Calm \/ OneMore
  BY <1>8, <1>9, <1>10, <1>11, <1>12, <1>13 DEF AnyStep, TaskStep
<1>15. IsFiniteSet(SpareFailures') /\ Cardinality(SpareFailures') <= errors'
  BY <1>3, <1>14, OneMoreSpare DEF Calm, OneMore
<1> QED BY <1>2, <1>15 DEF SparedInv, NeighboursSpared

(***************************************************************************)
(* A poison record fails alone, in flushes serialized or not: every other  *)
(* database error costs at most one sound record its delivery (_write,     *)
(* _replay).  The invariant needs MembersInBatch: a flush task has a       *)
(* finite number of members, so a batch of one is a batch of one record.   *)
(***************************************************************************)
THEOREM NeighboursAreSpared == BatcherSpec => []NeighboursSpared
<1>1. BatcherInit => SparedInv
  <2>1. BatcherInit => SpareFailures = {} /\ MembersInBatch /\ errors = 0
    BY DEF BatcherInit, SpareFailures, MembersInBatch
  <2> QED BY <2>1, InitType, FS_EmptySet DEF SparedInv, NeighboursSpared
<1>2. SparedInv /\ [BatcherNext]_batcherVars => SparedInv'
  <2>1. SparedInv /\ BatcherNext => SparedInv'
    BY StepSpared, NextIsAnyStep
  <2>2. SparedInv /\ UNCHANGED batcherVars => SparedInv'
    BY StutterType DEF SparedInv, batcherVars, taskVars, faultVars, MembersInBatch, Occurs,
                       NeighboursSpared, SpareFailures
  <2> QED BY <2>1, <2>2
<1>3. SparedInv => NeighboursSpared
  BY DEF SparedInv
<1> QED BY <1>1, <1>2, <1>3, PTL DEF BatcherSpec

-----------------------------------------------------------------------------
(* The newest record wins. *)

Older(d, e) == d[1] < e[1]

(* Deliveries queued in publication order *)
ByAge(queue) == \A i, j \in DOMAIN queue : i < j => Older(queue[i], queue[j])

(* A delivery that left the queue with a flush task, or whose record is written *)
Begun(d) ==
    \/ Occurs(d, commit_lock)
    \/ \E t \in Deliveries : stage[t] # "none" /\ d \in todo[t]
    \/ d[1] \in committed

(***************************************************************************)
(* A queue that _flush_now may cut: in publication order, behind all that  *)
(* has begun, and nothing older is still to be submitted.                  *)
(***************************************************************************)
QueueInOrder(queue, fut) ==
    /\ ByAge(queue)
    /\ \A d \in Deliveries : Occurs(d, queue) \/ Begun(d) => fut[d] # "none"
    /\ \A d, e \in Deliveries : fut[d] # "none" /\ Older(e, d) => fut[e] # "none"
    /\ \A d, e \in Deliveries : Begun(d) /\ Occurs(e, queue) => Older(d, e)

(***************************************************************************)
(* Flush tasks are named by their first delivery: all committed records    *)
(* are older than a task's name, its members are not, and they are older   *)
(* than the name of any later task.                                        *)
(***************************************************************************)
TaskInOrder(t) ==
    /\ stage[t] # "replay"
    /\ ByAge(batch[t])
    /\ \A d \in todo[t] : t[1] <= d[1]
    /\ \A d \in todo[t], u \in Deliveries : stage[u] # "none" /\ Older(t, u) => Older(d, u)
    /\ \A r \in committed : r < t[1]

Newest == \A r \in committed : Target[r] # NoNode => graph[Target[r]] >= r

WorkInOrder ==
    /\ \A t \in Deliveries : stage[t] # "none" => TaskInOrder(t)
    /\ ByAge(commit_lock)
    /\ Newest

InOrder == QueueInOrder(pending, future) /\ WorkInOrder

(* No batch can have been replayed and no record is delivered twice *)
InOnePass ==
    /\ SERIALIZE_FLUSHES /\ errors = 0 /\ MaxAttempts = 1
    /\ \A d \in Deliveries : d[1] \in Poison => future[d] = "none"

OrderInv == TypeInv /\ MembersInBatch /\ (InOnePass => InOrder)

(* Within one pass a record is delivered once, so a delivery is known by its record *)
LEMMA OneDelivery ==
    ASSUME InOnePass
    PROVE  /\ \A d \in Deliveries : d[1] \in Records /\ d[1] \in Nat /\ d = <<d[1], 1>>
           /\ \A r \in Records : <<r, 1>> \in Deliveries
           /\ \A d, e \in Deliveries : d = e \/ Older(d, e) \/ Older(e, d)
<1>1. Deliveries = Records \X {1}
  <2>1. 1 .. MaxAttempts = {1} BY DEF InOnePass
  <2> QED BY <2>1 DEF Deliveries
<1>2. \A d \in Deliveries : d[1] \in Records /\ d[1] \in Nat /\ d = <<d[1], 1>>
  <2> SUFFICES ASSUME NEW d \in Deliveries
               PROVE  d[1] \in Records /\ d[1] \in Nat /\ d = <<d[1], 1>>
    OBVIOUS
  <2>1. PICK r \in Records : d = <<r, 1>>
    BY <1>1
  <2> QED BY <2>1, RecordsAssumption
<1>3. \A d, e \in Deliveries : d[1] = e[1] => d = e
  BY <1>2
<1>4. \A d, e \in Deliveries : d = e \/ Older(d, e) \/ Older(e, d)
  BY <1>2, <1>3 DEF Older
<1> QED BY <1>1, <1>2, <1>4

(* Nothing is replayed within one pass, so every live flush task is in the lock queue *)
LEMMA LiveIsQueued ==
    ASSUME TypeInv, InOnePass, WorkInOrder, NEW t \in Deliveries, stage[t] # "none"
    PROVE  stage[t] \in {"created", "commit"} /\ Occurs(t, commit_lock) /\ Begun(t)
<1>1. stage[t] \in {"none", "created", "commit", "replay"}
  BY DEF TypeInv, BatcherTypeOK
<1>2. stage[t] \in {"created", "commit"}
  BY <1>1 DEF WorkInOrder, TaskInOrder
<1>3. Occurs(t, commit_lock)
  BY <1>2 DEF TypeInv, LockQueue, InOnePass, Occurs
<1> QED BY <1>2, <1>3 DEF Begun

(* A submission joins the queue behind everything submitted before it *)
LEMMA SubmitInOrder ==
    ASSUME TypeInv, InOnePass, InOrder, NEW d \in Deliveries, MaySubmit(d), future[d] = "none"
    PROVE  QueueInOrder(Append(pending, d), [future EXCEPT ![d] = "open"])
<1> DEFINE queue == Append(pending, d)
           fut == [future EXCEPT ![d] = "open"]
<1>1. /\ pending \in Seq(Deliveries) /\ future \in [Deliveries -> FutureStates]
      /\ QueueInOrder(pending, future)
  BY DEF TypeInv, BatcherTypeOK, FutureStates, InOrder
<1>2. /\ queue \in Seq(Deliveries)
      /\ Len(pending) \in Nat
      /\ DOMAIN pending = 1 .. Len(pending)
      /\ DOMAIN queue = 1 .. Len(pending) + 1
      /\ queue[Len(pending) + 1] = d
      /\ \A i \in DOMAIN pending : queue[i] = pending[i]
  BY <1>1, AppendProperties, LenProperties
<1>3. \A e \in Deliveries : fut[e] = IF e = d THEN "open" ELSE future[e]
  BY <1>1
<1>4. \A i \in DOMAIN pending : pending[i] \in Deliveries
  BY <1>1, <1>2, ElementOfSeq
<1> HIDE DEF queue, fut
<1>5. \A e \in Deliveries : future[e] # "none" => Older(e, d)
  <2> SUFFICES ASSUME NEW e \in Deliveries, future[e] # "none" PROVE Older(e, d)
    OBVIOUS
  <2>1. e # d OBVIOUS
  <2>2. ~Older(d, e) BY <1>1 DEF QueueInOrder
  <2> QED BY <2>1, <2>2, OneDelivery
<1>6. \A e \in Deliveries : Occurs(e, queue) <=> (e = d \/ Occurs(e, pending))
  <2>1. Len(pending) + 1 \in DOMAIN queue
    BY <1>2
  <2> QED BY <1>2, <2>1 DEF Occurs
<1>7. ByAge(queue)
  <2> SUFFICES ASSUME NEW i \in DOMAIN queue, NEW j \in DOMAIN queue, i < j
               PROVE  Older(queue[i], queue[j])
    BY DEF ByAge
  <2>1. i \in DOMAIN pending
    BY <1>2
  <2>2. CASE j \in DOMAIN pending
    BY <1>1, <1>2, <2>1, <2>2 DEF QueueInOrder, ByAge
  <2>3. CASE j \notin DOMAIN pending
    <3>1. queue[j] = d
      BY <1>2, <2>3
    <3>2. pending[i] \in Deliveries /\ Occurs(pending[i], pending)
      BY <1>4, <2>1 DEF Occurs
    <3>3. Older(pending[i], d)
      BY <1>1, <1>5, <3>2 DEF QueueInOrder
    <3> QED BY <1>2, <2>1, <3>1, <3>3
  <2> QED BY <2>2, <2>3
<1>8. \A e \in Deliveries : Occurs(e, queue) \/ Begun(e) => fut[e] # "none"
  BY <1>1, <1>3, <1>6 DEF QueueInOrder
<1>9. \A e, f \in Deliveries : fut[e] # "none" /\ Older(f, e) => fut[f] # "none"
  <2> SUFFICES ASSUME NEW e \in Deliveries, NEW f \in Deliveries, fut[e] # "none", Older(f, e)
               PROVE  fut[f] # "none"
    OBVIOUS
  <2>1. CASE e = d
    <3>1. d[2] = 1 /\ f[1] \in Records /\ f = <<f[1], 1>> /\ f[1] < d[1]
      BY <2>1, OneDelivery DEF Older
    <3>2. future[f] # "none"
      BY <3>1 DEF MaySubmit
    <3> QED BY <1>3, <3>2
  <2>2. CASE e # d
    BY <1>1, <1>3, <2>2 DEF QueueInOrder
  <2> QED BY <2>1, <2>2
<1>10. \A e, f \in Deliveries : Begun(e) /\ Occurs(f, queue) => Older(e, f)
  BY <1>1, <1>5, <1>6 DEF QueueInOrder
<1> QED BY <1>7, <1>8, <1>9, <1>10 DEF QueueInOrder, queue, fut

(* A member of a taken slice was in the queue, and behind it comes only what is younger *)
LEMMA CutInOrder ==
    ASSUME NEW queue \in Seq(Deliveries), ByAge(queue)
    PROVE  LET c == Cut(queue)
               taken == SubSeq(queue, 1, c)
               rest == SubSeq(queue, c + 1, Len(queue))
           IN  /\ ByAge(taken) /\ ByAge(rest)
               /\ \A d : Occurs(d, taken) => Occurs(d, queue)
               /\ \A d : Occurs(d, rest) => Occurs(d, queue)
               /\ \A d, e : Occurs(d, taken) /\ Occurs(e, rest) => Older(d, e)
               /\ \A d : Occurs(d, taken) => Occurs(taken[1], taken) /\ (d = taken[1] \/ Older(taken[1], d))
<1> DEFINE c == Cut(queue)
           taken == SubSeq(queue, 1, c)
           rest == SubSeq(queue, c + 1, Len(queue))
<1>1. /\ c \in 0 .. Len(queue) /\ Len(queue) \in Nat /\ DOMAIN queue = 1 .. Len(queue)
      /\ DOMAIN taken = 1 .. c
      /\ \A i \in 1 .. c : taken[i] = queue[i]
      /\ DOMAIN rest = 1 .. (Len(queue) - c)
      /\ \A i \in 1 .. (Len(queue) - c) : rest[i] = queue[c + i]
  BY Split, LenProperties
<1> HIDE DEF c, taken, rest
<1>2. \A i \in 1 .. c : i \in DOMAIN queue /\ i \in Nat
  BY <1>1
<1>3. \A i \in DOMAIN rest : c + i \in DOMAIN queue /\ i \in Nat /\ c + i > c
  BY <1>1
<1>4. ByAge(taken)
  BY <1>1, <1>2 DEF ByAge
<1>5. ByAge(rest)
  <2> SUFFICES ASSUME NEW i \in DOMAIN rest, NEW j \in DOMAIN rest, i < j
               PROVE  Older(rest[i], rest[j])
    BY DEF ByAge
  <2>1. c + i < c + j
    BY <1>1, <1>3
  <2>2. Older(queue[c + i], queue[c + j])
    BY <1>3, <2>1 DEF ByAge
  <2> QED BY <1>1, <2>2
<1>6. \A d : Occurs(d, taken) => Occurs(d, queue)
  BY <1>1, <1>2 DEF Occurs
<1>7. \A d : Occurs(d, rest) => Occurs(d, queue)
  BY <1>1, <1>3 DEF Occurs
<1>8. ASSUME NEW d, NEW e, Occurs(d, taken), Occurs(e, rest) PROVE Older(d, e)
  <2>1. PICK i \in 1 .. c : taken[i] = d
    BY <1>1, <1>8 DEF Occurs
  <2>2. PICK j \in DOMAIN rest : rest[j] = e
    BY <1>8 DEF Occurs
  <2>3. i < c + j
    BY <1>1, <1>3
  <2>4. Older(queue[i], queue[c + j])
    BY <1>2, <1>3, <2>3 DEF ByAge
  <2> QED BY <1>1, <2>1, <2>2, <2>4
<1>9. ASSUME NEW d, Occurs(d, taken) PROVE Occurs(taken[1], taken) /\ (d = taken[1] \/ Older(taken[1], d))
  <2>1. PICK i \in 1 .. c : taken[i] = d
    BY <1>1, <1>9 DEF Occurs
  <2>2. 1 \in 1 .. c /\ Occurs(taken[1], taken)
    BY <1>1 DEF Occurs
  <2>3. i = 1 \/ 1 < i
    OBVIOUS
  <2> QED BY <1>1, <1>4, <2>1, <2>2, <2>3 DEF ByAge
<1> QED BY <1>4, <1>5, <1>6, <1>7, <1>8, <1>9 DEF c, taken, rest

(* _flush_now cuts a batch that comes after all that has begun and before what stays queued *)
LEMMA FlushNowInOrder ==
    ASSUME TypeInv, InOnePass, WorkInOrder,
           NEW queue \in Seq(Deliveries),
           NEW fut \in [Deliveries -> FutureStates],
           QueueInOrder(queue, fut),
           FlushNow(queue, fut), future' = fut, UNCHANGED <<graph, committed>>
    PROVE  InOrder'
<1> DEFINE c == Cut(queue)
           taken == SubSeq(queue, 1, c)
           rest == SubSeq(queue, c + 1, Len(queue))
           live == {d \in {taken[i] : i \in DOMAIN taken} : fut[d] = "open"}
           t == taken[1]
<1>1. /\ stage \in [Deliveries -> {"none", "created", "commit", "replay"}]
      /\ todo \in [Deliveries -> SUBSET Deliveries] /\ batch \in [Deliveries -> Seq(Deliveries)]
      /\ commit_lock \in Seq(Deliveries)
  BY DEF TypeInv, BatcherTypeOK
<1>2. /\ ByAge(taken) /\ ByAge(rest)
      /\ \A d : Occurs(d, taken) => Occurs(d, queue)
      /\ \A d : Occurs(d, rest) => Occurs(d, queue)
      /\ \A d, e : Occurs(d, taken) /\ Occurs(e, rest) => Older(d, e)
      /\ \A d : Occurs(d, taken) => Occurs(t, taken) /\ (d = t \/ Older(t, d))
  BY CutInOrder DEF QueueInOrder
<1>3. /\ pending' = rest
      /\ live = {} => UNCHANGED <<stage, batch, todo, commit_lock>>
      /\ live # {} => /\ stage' = [stage EXCEPT ![t] = "created"]
                      /\ batch' = [batch EXCEPT ![t] = taken]
                      /\ todo' = [todo EXCEPT ![t] = live]
                      /\ commit_lock' = Append(commit_lock, t)
  BY DEF FlushNow, taskVars, InOnePass
<1>4. \A d \in live : Occurs(d, taken)
  BY DEF Occurs
<1>5. \A d \in Deliveries : Begun(d) <=> \/ Occurs(d, commit_lock)
                                         \/ \E u \in Deliveries : stage[u] # "none" /\ d \in todo[u]
                                         \/ d[1] \in committed
  BY DEF Begun
<1>6. \A d, e \in Deliveries : Begun(d) /\ Occurs(e, queue) => Older(d, e)
  BY DEF QueueInOrder
<1>7. \A d : Occurs(d, queue) => d \in Deliveries
  <2>1. DOMAIN queue = 1 .. Len(queue) BY LenProperties
  <2> QED BY <2>1, ElementOfSeq DEF Occurs
<1> HIDE DEF c, taken, rest, live
<1>8. CASE live = {}
  <2>1. UNCHANGED <<stage, batch, todo, commit_lock>>
    BY <1>3, <1>8
  <2>2. \A d : Begun(d)' <=> Begun(d)
    BY <2>1 DEF Begun, Occurs
  <2>3. QueueInOrder(rest, fut)'
    BY <1>2, <2>2 DEF QueueInOrder, ByAge, Occurs
  <2>4. WorkInOrder'
    BY <2>1 DEF WorkInOrder, TaskInOrder, ByAge, Older, Newest
  <2> QED BY <1>3, <2>3, <2>4 DEF InOrder, QueueInOrder, ByAge, Occurs
<1>9. CASE live # {}
  <2> DEFINE lock == Append(commit_lock, t)
  <2>1. /\ t \in Deliveries /\ Occurs(t, taken) /\ Occurs(t, queue)
        /\ \A d \in live : d \in Deliveries
    BY <1>2, <1>4, <1>7, <1>9
  <2>2. \A d \in Deliveries : Begun(d) => Older(d, t)
    BY <1>6, <2>1
  <2>3. stage[t] = "none" /\ \A u \in Deliveries : stage[u] # "none" => Begun(u) /\ Older(u, t) /\ u # t
    BY <2>1, <2>2, LiveIsQueued, OneDelivery DEF Older
  <2>4. \A u \in Deliveries : /\ stage'[u] = IF u = t THEN "created" ELSE stage[u]
                              /\ batch'[u] = IF u = t THEN taken ELSE batch[u]
                              /\ todo'[u] = IF u = t THEN live ELSE todo[u]
    BY <1>1, <1>3, <1>9, <2>1
  <2>5. /\ Len(commit_lock) \in Nat /\ DOMAIN commit_lock = 1 .. Len(commit_lock)
        /\ DOMAIN lock = 1 .. Len(commit_lock) + 1
        /\ lock[Len(commit_lock) + 1] = t
        /\ \A i \in DOMAIN commit_lock : lock[i] = commit_lock[i] /\ commit_lock[i] \in Deliveries
    BY <1>1, <2>1, LenProperties, AppendProperties, ElementOfSeq
  <2>6. commit_lock' = lock
    BY <1>3, <1>9
  <2> HIDE DEF lock, t
  <2>7. \A d : Occurs(d, lock) <=> (d = t \/ Occurs(d, commit_lock))
    <3>1. Len(commit_lock) + 1 \in DOMAIN lock
      BY <2>5
    <3> QED BY <2>5, <3>1 DEF Occurs
  <2>8. \A d \in Deliveries : Begun(d)' => Begun(d) \/ Occurs(d, taken)
    <3> SUFFICES ASSUME NEW d \in Deliveries, Begun(d)' PROVE Begun(d) \/ Occurs(d, taken)
      OBVIOUS
    <3>1. CASE Occurs(d, lock)
      BY <1>5, <2>1, <2>7, <3>1
    <3>2. CASE \E u \in Deliveries : stage'[u] # "none" /\ d \in todo'[u]
      BY <1>4, <1>5, <2>4, <3>2
    <3>3. CASE d[1] \in committed
      BY <1>5, <3>3
    <3> QED BY <2>6, <3>1, <3>2, <3>3 DEF Begun, Occurs
  <2>9. QueueInOrder(rest, fut)'
    <3>1. ByAge(rest)
      BY <1>2
    <3>2. \A d \in Deliveries : Occurs(d, rest) \/ Begun(d)' => fut[d] # "none"
      BY <1>2, <2>8 DEF QueueInOrder
    <3>3. \A d, e \in Deliveries : Begun(d)' /\ Occurs(e, rest) => Older(d, e)
      BY <1>2, <1>6, <2>8
    <3> QED BY <3>1, <3>2, <3>3 DEF QueueInOrder, ByAge, Occurs, Older
  <2>10. ByAge(lock)
    <3> SUFFICES ASSUME NEW i \in DOMAIN lock, NEW j \in DOMAIN lock, i < j
                 PROVE  Older(lock[i], lock[j])
      BY DEF ByAge
    <3>1. i \in DOMAIN commit_lock
      BY <2>5
    <3>2. CASE j \in DOMAIN commit_lock
      BY <2>5, <3>1, <3>2 DEF WorkInOrder, ByAge
    <3>3. CASE j \notin DOMAIN commit_lock
      <4>1. lock[j] = t /\ lock[i] = commit_lock[i] /\ commit_lock[i] \in Deliveries
        BY <2>5, <3>1, <3>3
      <4>2. Begun(commit_lock[i])
        BY <1>5, <3>1, <4>1 DEF Occurs
      <4> QED BY <2>2, <4>1, <4>2
    <3> QED BY <3>2, <3>3
  <2>11. ASSUME NEW u \in Deliveries, stage'[u] # "none" PROVE TaskInOrder(u)'
    <3>1. CASE u = t
      <4>1. stage'[u] # "replay" /\ batch'[u] = taken /\ todo'[u] = live
        BY <2>4, <3>1
      <4>2. \A d \in live : u[1] <= d[1]
        <5> TAKE d \in live
        <5>1. d = t \/ Older(t, d)
          BY <1>2, <1>4
        <5>2. d[1] \in Nat /\ t[1] \in Nat
          BY <2>1, OneDelivery
        <5> QED BY <3>1, <5>1, <5>2 DEF Older
      <4>3. \A v \in Deliveries : stage'[v] # "none" => ~Older(u, v)
        <5> SUFFICES ASSUME NEW v \in Deliveries, stage'[v] # "none" PROVE ~Older(u, v)
          OBVIOUS
        <5>1. u[1] \in Nat /\ v[1] \in Nat
          BY OneDelivery
        <5>2. v = t \/ Older(v, t)
          BY <2>3, <2>4
        <5> QED BY <3>1, <5>1, <5>2 DEF Older
      <4>4. \A r \in committed : r < u[1]
        <5> TAKE r \in committed
        <5>1. r \in Records
          BY DEF TypeInv, BatcherTypeOK
        <5>2. <<r, 1>> \in Deliveries /\ Begun(<<r, 1>>)
          BY <1>5, <5>1, OneDelivery
        <5> QED BY <2>2, <3>1, <5>2 DEF Older
      <4> QED BY <1>2, <4>1, <4>2, <4>3, <4>4 DEF TaskInOrder, ByAge, Older
    <3>2. CASE u # t
      <4>1. stage[u] # "none" /\ stage'[u] = stage[u] /\ batch'[u] = batch[u] /\ todo'[u] = todo[u]
        BY <2>4, <2>11, <3>2
      <4>2. TaskInOrder(u)
        BY <4>1 DEF WorkInOrder
      <4>3. \A d \in todo[u], v \in Deliveries : stage'[v] # "none" /\ Older(u, v) => Older(d, v)
        <5> SUFFICES ASSUME NEW d \in todo[u], NEW v \in Deliveries, stage'[v] # "none", Older(u, v)
                     PROVE  Older(d, v)
          OBVIOUS
        <5>1. d \in Deliveries /\ Begun(d)
          BY <1>1, <1>5, <4>1
        <5> QED BY <2>2, <2>4, <4>2, <5>1 DEF TaskInOrder
      <4> QED BY <4>1, <4>2, <4>3 DEF TaskInOrder, ByAge, Older
    <3> QED BY <3>1, <3>2
  <2>12. WorkInOrder'
    <3>1. Newest'
      BY DEF WorkInOrder, Newest
    <3>2. ByAge(commit_lock)'
      BY <2>6, <2>10 DEF ByAge, Older
    <3> QED BY <2>11, <3>1, <3>2 DEF WorkInOrder
  <2> QED BY <1>3, <2>9, <2>12 DEF InOrder, QueueInOrder, ByAge, Occurs
<1> QED BY <1>8, <1>9

(* A batch is committed in publication order: the last duplicate of a node is its newest member *)
LEMMA ApplyBatchNewest ==
    ASSUME TypeInv, MembersInBatch, InOnePass, WorkInOrder,
           NEW t \in Deliveries, stage[t] # "none", ApplyBatch(t)
    PROVE  Newest'
<1> SUFFICES ASSUME NEW r \in committed', Target[r] # NoNode PROVE graph'[Target[r]] >= r
  BY DEF Newest
<1> DEFINE n == Target[r]
           P == Positions(t, n)
           last == CHOOSE i \in P : \A j \in P : j <= i
<1>1. /\ batch[t] \in Seq(Deliveries) /\ todo[t] \subseteq Deliveries /\ committed \subseteq Records
      /\ graph \in [Nodes -> Records \cup {0}] /\ Len(batch[t]) \in Nat
      /\ DOMAIN batch[t] = 1 .. Len(batch[t])
  BY LenProperties DEF TypeInv, BatcherTypeOK
<1>2. TaskInOrder(t)
  BY DEF WorkInOrder
<1>3. r \in committed \/ \E d \in todo[t] : r = d[1]
  BY DEF ApplyBatch
<1>4. r \in Records /\ r \in Nat /\ n \in Nodes
  BY <1>1, <1>3, OneDelivery, TargetAssumption, RecordsAssumption
<1>5. graph'[n] = IF P # {} THEN Representative(t, n)[1] ELSE graph[n]
  BY <1>4 DEF ApplyBatch
<1>6. CASE P = {}
  <2>1. ~\E d \in todo[t] : r = d[1]
    BY <1>6 DEF MembersInBatch, Occurs, Positions, Enriches
  <2> QED BY <1>3, <1>5, <1>6, <2>1 DEF WorkInOrder, Newest
<1>7. CASE P # {}
  <2>1. P \in SUBSET (1 .. Len(batch[t]))
    BY <1>1 DEF Positions
  <2>2. \E i \in P : \A j \in P : j <= i
    BY <1>1, <1>7, <2>1, LastPosition
  <2>3. last \in P /\ \A j \in P : j <= last
    BY <2>2
  <2>4. Representative(t, n) = batch[t][last] /\ batch[t][last] \in todo[t]
    BY <2>3 DEF Representative, Positions
  <2>5. graph'[n] = batch[t][last][1] /\ batch[t][last][1] \in Nat /\ t[1] \in Nat
    BY <1>1, <1>5, <1>7, <2>4, OneDelivery
  <2> HIDE DEF last
  <2>6. CASE r \in committed
    <3>1. r < t[1] /\ t[1] <= batch[t][last][1]
      BY <1>2, <2>4, <2>6 DEF TaskInOrder
    <3> QED BY <1>4, <2>5, <3>1
  <2>7. ASSUME NEW d \in todo[t], r = d[1] PROVE graph'[n] >= r
    <3>1. PICK i \in DOMAIN batch[t] : batch[t][i] = d
      BY DEF MembersInBatch, Occurs
    <3>2. i \in P
      BY <2>7, <3>1 DEF Positions, Enriches
    <3>3. i \in Nat /\ last \in Nat /\ i <= last /\ last \in DOMAIN batch[t]
      BY <1>1, <2>1, <2>3, <3>2
    <3>4. i = last \/ i < last
      BY <3>3
    <3>5. batch[t][i][1] = batch[t][last][1] \/ batch[t][i][1] < batch[t][last][1]
      BY <1>2, <3>1, <3>3, <3>4 DEF TaskInOrder, ByAge, Older
    <3> QED BY <1>4, <2>5, <2>7, <3>1, <3>5
  <2> QED BY <1>3, <2>6, <2>7
<1> QED BY <1>6, <1>7

(* What a flush task does on the way to its commit leaves the order alone *)
LEMMA CalmInOrder ==
    ASSUME InOrder, UNCHANGED <<pending, batch, todo, commit_lock, graph, committed>>,
           \A d \in Deliveries : future'[d] = "none" <=> future[d] = "none",
           \A t \in Deliveries : /\ stage'[t] = "none" <=> stage[t] = "none"
                                 /\ stage'[t] = "replay" => stage[t] = "replay"
    PROVE  InOrder'
<1>1. \A d : Begun(d)' <=> Begun(d)
  BY DEF Begun, Occurs
<1>2. QueueInOrder(pending, future)'
  BY <1>1 DEF InOrder, QueueInOrder, ByAge, Occurs, Older
<1>3. \A t \in Deliveries : TaskInOrder(t) => TaskInOrder(t)'
  BY DEF TaskInOrder, ByAge, Older
<1>4. WorkInOrder'
  BY <1>3 DEF InOrder, WorkInOrder, ByAge, Older, Newest
<1> QED BY <1>2, <1>4 DEF InOrder

(* A flush task ends: the next one in the lock queue begins after it *)
LEMMA LeaveInOrder ==
    ASSUME TypeInv, MembersInBatch, InOnePass, InOrder, NEW t \in Deliveries, stage[t] = "commit",
           FinishTask(t), ReleaseGuard, pending' = pending,
           \A d \in Deliveries : future'[d] = "none" <=> future[d] = "none",
           ApplyBatch(t) \/ UNCHANGED <<graph, committed>>
    PROVE  InOrder'
<1>1. /\ stage \in [Deliveries -> {"none", "created", "commit", "replay"}]
      /\ todo \in [Deliveries -> SUBSET Deliveries] /\ batch \in [Deliveries -> Seq(Deliveries)]
      /\ commit_lock \in Seq(Deliveries)
  BY DEF TypeInv, BatcherTypeOK
<1>2. /\ Occurs(t, commit_lock) /\ t = Head(commit_lock) /\ commit_lock # <<>>
      /\ commit_lock' = Tail(commit_lock)
  BY LiveIsQueued DEF TypeInv, LockQueue, InOnePass, InOrder, Occurs, ReleaseGuard
<1>3. /\ Len(commit_lock) \in Nat
      /\ DOMAIN commit_lock = 1 .. Len(commit_lock)
      /\ DOMAIN commit_lock' = 1 .. Len(commit_lock) - 1
      /\ \A j \in DOMAIN commit_lock' : commit_lock'[j] = commit_lock[j + 1]
      /\ t = commit_lock[1] /\ 1 \in DOMAIN commit_lock
  BY <1>1, <1>2, LenProperties, HeadTailProperties, TailIsSubSeq
<1>4. \A j \in DOMAIN commit_lock' : j + 1 \in DOMAIN commit_lock /\ j \in Nat
  BY <1>3
<1>5. \A u \in Deliveries : /\ stage'[u] = IF u = t THEN "none" ELSE stage[u]
                            /\ todo'[u] = IF u = t THEN {} ELSE todo[u]
                            /\ u # t => batch'[u] = batch[u]
  BY <1>1 DEF FinishTask
<1>6. \A r \in committed' : r \in committed \/ \E d \in todo[t] : r = d[1]
  BY DEF ApplyBatch
<1>7. \A u \in Deliveries : stage[u] # "none" /\ u # t => Older(t, u)
  <2> SUFFICES ASSUME NEW u \in Deliveries, stage[u] # "none", u # t PROVE Older(t, u)
    OBVIOUS
  <2>1. PICK i \in DOMAIN commit_lock : commit_lock[i] = u
    BY LiveIsQueued DEF InOrder, Occurs
  <2>2. 1 < i
    BY <1>3, <2>1
  <2> QED BY <1>3, <2>1, <2>2 DEF InOrder, WorkInOrder, ByAge
<1>8. \A d \in Deliveries : Begun(d)' => Begun(d)
  <2> SUFFICES ASSUME NEW d \in Deliveries, Begun(d)' PROVE Begun(d)
    OBVIOUS
  <2>1. CASE Occurs(d, commit_lock)'
    BY <1>3, <1>4, <2>1 DEF Begun, Occurs
  <2>2. CASE \E u \in Deliveries : stage'[u] # "none" /\ d \in todo'[u]
    BY <1>5, <2>2 DEF Begun
  <2>3. CASE d[1] \in committed'
    <3>1. CASE d[1] \in committed
      BY <3>1 DEF Begun
    <3>2. ASSUME NEW e \in todo[t], d[1] = e[1] PROVE Begun(d)
      <4>1. e \in Deliveries
        BY <1>1
      <4>2. e = d
        BY <3>2, <4>1, OneDelivery
      <4> QED BY <4>2 DEF Begun
    <3> QED BY <1>6, <2>3, <3>1, <3>2
  <2> QED BY <2>1, <2>2, <2>3 DEF Begun
<1>9. QueueInOrder(pending, future)'
  BY <1>8 DEF InOrder, QueueInOrder, ByAge, Occurs, Older
<1>10. ASSUME NEW u \in Deliveries, stage'[u] # "none" PROVE TaskInOrder(u)'
  <2>1. u # t /\ stage[u] # "none" /\ stage'[u] = stage[u] /\ todo'[u] = todo[u] /\ batch'[u] = batch[u]
    BY <1>5, <1>10
  <2>2. TaskInOrder(u) /\ TaskInOrder(t)
    BY <2>1 DEF InOrder, WorkInOrder
  <2>3. \A r \in committed' : r < u[1]
    BY <1>6, <1>7, <2>1, <2>2 DEF TaskInOrder, Older
  <2>4. \A d \in todo[u], v \in Deliveries : stage'[v] # "none" /\ Older(u, v) => Older(d, v)
    BY <1>5, <2>2 DEF TaskInOrder
  <2> QED BY <2>1, <2>2, <2>3, <2>4 DEF TaskInOrder, ByAge, Older
<1>11. ByAge(commit_lock')
  <2> SUFFICES ASSUME NEW i \in DOMAIN commit_lock', NEW j \in DOMAIN commit_lock', i < j
               PROVE  Older(commit_lock'[i], commit_lock'[j])
    BY DEF ByAge
  <2>1. i + 1 < j + 1
    BY <1>4
  <2> QED BY <1>3, <1>4, <2>1 DEF InOrder, WorkInOrder, ByAge
<1>12. Newest'
  BY ApplyBatchNewest DEF InOrder, WorkInOrder, Newest
<1>13. WorkInOrder'
  BY <1>10, <1>11, <1>12 DEF WorkInOrder, ByAge, Older
<1> QED BY <1>9, <1>13 DEF InOrder

(* Every step of one pass keeps the order *)
LEMMA StepInOrder ==
    ASSUME TypeInv, MembersInBatch, InOnePass, InOnePass', InOrder, BatcherNext
    PROVE  InOrder'
<1>1. /\ pending \in Seq(Deliveries) /\ future \in [Deliveries -> FutureStates]
      /\ stage \in [Deliveries -> {"none", "created", "commit", "replay"}]
      /\ \A t \in Deliveries : todo[t] \subseteq Deliveries
      /\ QueueInOrder(pending, future) /\ WorkInOrder
  BY DEF TypeInv, BatcherTypeOK, FutureStates, InOrder
<1>2. CASE FlushTimer
  BY <1>1, <1>2, FlushNowInOrder DEF FlushTimer, graphVars
<1>3. ASSUME NEW d \in Deliveries, MaySubmit(d), Submit(d) PROVE InOrder'
  <2> DEFINE queue == Append(pending, d)
             fut == [future EXCEPT ![d] = "open"]
  <2>1. queue \in Seq(Deliveries) /\ fut \in [Deliveries -> FutureStates]
    BY <1>1, AppendProperties DEF FutureStates
  <2>2. /\ future[d] = "none" /\ future' = fut /\ UNCHANGED <<graph, committed>>
        /\ FlushNow(queue, fut) \/ (pending' = queue /\ UNCHANGED taskVars)
    BY <1>3 DEF Submit, graphVars
  <2>3. QueueInOrder(queue, fut)
    BY <1>3, <2>2, SubmitInOrder
  <2> HIDE DEF queue, fut
  <2>4. CASE FlushNow(queue, fut)
    BY <1>1, <2>1, <2>2, <2>3, <2>4, FlushNowInOrder
  <2>5. CASE pending' = queue /\ UNCHANGED taskVars
    <3>1. UNCHANGED <<stage, batch, todo, commit_lock, graph, committed>>
      BY <2>2, <2>5 DEF taskVars
    <3>2. \A e : Begun(e)' <=> Begun(e)
      BY <3>1 DEF Begun, Occurs
    <3>3. QueueInOrder(pending, future)'
      BY <2>2, <2>3, <2>5, <3>2 DEF QueueInOrder, ByAge, Occurs, Older
    <3>4. WorkInOrder'
      BY <1>1, <3>1 DEF WorkInOrder, TaskInOrder, ByAge, Older, Newest
    <3> QED BY <3>3, <3>4 DEF InOrder
  <2> QED BY <2>2, <2>4, <2>5
<1>4. ASSUME NEW d \in Deliveries, CancelWaiter(d) PROVE InOrder'
  BY <1>1, <1>4, CalmInOrder DEF CancelWaiter, taskVars, graphVars
<1>5. ASSUME NEW t \in Deliveries, BeginCommit(t) PROVE InOrder'
  BY <1>1, <1>5, CalmInOrder DEF BeginCommit, graphVars
<1>6. ASSUME NEW t \in Deliveries, CommitReturns(t) PROVE InOrder'
  <2>1. stage[t] = "commit"
    BY <1>6 DEF CommitReturns, CommitOk, CommitTransient, CommitFails
  <2>2. ~CommitFails(t)
    <3>1. \A d \in todo[t] : d \in Deliveries /\ future[d] # "none"
      BY <1>1, <2>1 DEF QueueInOrder, Begun
    <3>2. ~PoisonedBatch(t)
      BY <3>1 DEF PoisonedBatch, InOnePass
    <3> QED BY <3>2 DEF CommitFails, InOnePass
  <2>3. /\ FinishTask(t) /\ ReleaseGuard /\ pending' = pending
        /\ ApplyBatch(t) \/ UNCHANGED <<graph, committed>>
        /\ ResolveAll(todo[t], Verdict) \/ Fail(todo[t], "transient")
    <3>1. CommitOk(t) => ResolveAll(todo[t], Verdict)
      BY CommitAnswersMembers DEF TypeInv
    <3> QED BY <1>6, <2>2, <3>1 DEF CommitReturns, CommitOk, CommitTransient, graphVars
  <2>4. \A d \in Deliveries : future'[d] = "none" <=> future[d] = "none"
    BY <2>3, VerdictType DEF ResolveAll, Fail, Verdicts
  <2> QED BY <2>1, <2>3, <2>4, LeaveInOrder
<1>7. ASSUME NEW t \in Deliveries, NEW d \in Deliveries, ReplayReturns(t, d) PROVE InOrder'
  <2>1. stage[t] = "replay"
    BY <1>7 DEF ReplayReturns, ReplayOk, ReplayTransient, ReplayFails, NextToReplay
  <2> QED BY <1>1, <2>1 DEF WorkInOrder, TaskInOrder
<1> QED BY <1>2, <1>3, <1>4, <1>5, <1>6, <1>7 DEF BatcherNext, TaskStep

(* A pass that still is one after a step was one before it *)
LEMMA StillOnePass ==
    ASSUME TypeInv, AnyStep, InOnePass'
    PROVE  InOnePass
<1>1. future \in [Deliveries -> FutureStates] /\ errors \in Nat
  BY DEF TypeInv, BatcherTypeOK, FutureStates
<1>2. errors' \in {errors, errors + 1}
  BY DEF AnyStep, TaskStep, FlushTimer, Submit, CancelWaiter, BeginCommit, CommitReturns, CommitOk,
         CommitTransient, CommitFails, ReplayReturns, ReplayOk, ReplayTransient, ReplayFails, faultVars
<1>3. \A d \in Deliveries : future'[d] = "none" => future[d] = "none"
  <2>1. \/ future' = future
        \/ \E d \in Deliveries : future' = [future EXCEPT ![d] = "open"]
        \/ \E d \in Deliveries : future' = [future EXCEPT ![d] = "cancelled"]
        \/ \E S : ResolveAll(S, Verdict) \/ Fail(S, "transient") \/ Fail(S, "failed")
    <3>1. \A t \in Deliveries : CommitOk(t) => \E S : ResolveAll(S, Verdict)
      BY AnswerIsOwnVerdict DEF CommitOk, TypeInv
    <3> QED BY <3>1 DEF AnyStep, TaskStep, FlushTimer, Submit, CancelWaiter, BeginCommit, CommitReturns,
               CommitTransient, CommitFails, ReplayReturns, ReplayOk, ReplayTransient, ReplayFails
  <2>2. ASSUME NEW S, ResolveAll(S, Verdict) \/ Fail(S, "transient") \/ Fail(S, "failed"),
               NEW d \in Deliveries, future'[d] = "none"
        PROVE  future[d] = "none"
    BY <2>2, VerdictType DEF ResolveAll, Fail, Verdicts
  <2> QED BY <1>1, <2>1, <2>2
<1> QED BY <1>1, <1>2, <1>3 DEF InOnePass

(***************************************************************************)
(* With serialized flushes, no replay and no second delivery, a node       *)
(* carries the newest committed record that targets it, for any number of  *)
(* records, batches and cancelled waiters (_commit_guard, _superseded).    *)
(* The invariant orders the queue, the flush tasks and the lock queue.     *)
(***************************************************************************)
THEOREM NewestRecordWins == BatcherSpec => []NewestWins
<1>1. BatcherInit => OrderInv
  <2> SUFFICES ASSUME BatcherInit PROVE OrderInv
    OBVIOUS
  <2>1. MembersInBatch /\ TypeInv
    BY InitType DEF BatcherInit, MembersInBatch
  <2>2. \A d \in Deliveries : ~Begun(d) /\ ~Occurs(d, pending) /\ future[d] = "none" /\ stage[d] = "none"
    BY DEF BatcherInit, Begun, Occurs
  <2>3. ByAge(pending) /\ ByAge(commit_lock) /\ Newest
    BY DEF BatcherInit, ByAge, Newest
  <2> QED BY <2>1, <2>2, <2>3 DEF OrderInv, InOrder, QueueInOrder, WorkInOrder
<1>2. OrderInv /\ [BatcherNext]_batcherVars => OrderInv'
  <2>1. OrderInv /\ BatcherNext => OrderInv'
    BY StepType, StepLock, StepMembersInBatch, StillOnePass, StepInOrder, NextIsAnyStep DEF OrderInv, TypeInv
  <2>2. ASSUME OrderInv, UNCHANGED batcherVars PROVE OrderInv'
    <3>1. TypeInv' /\ MembersInBatch'
      BY <2>2, StutterType DEF OrderInv, batcherVars, taskVars, MembersInBatch, Occurs
    <3>2. InOnePass' => InOnePass
      BY <2>2 DEF InOnePass, batcherVars, faultVars
    <3>3. InOrder => InOrder'
      BY <2>2, CalmInOrder DEF batcherVars, taskVars, graphVars
    <3> QED BY <2>2, <3>1, <3>2, <3>3 DEF OrderInv
  <2> QED BY <2>1, <2>2
<1>3. OrderInv => NewestWins
  BY DEF OrderInv, InOrder, WorkInOrder, Newest, NewestWins, InOnePass
<1> QED BY <1>1, <1>2, <1>3, PTL DEF BatcherSpec
=============================================================================
