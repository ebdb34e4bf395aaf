---------------------------- MODULE WriteBatcher ----------------------------
(***************************************************************************)
(* The WriteBatcher of one MusicBrainz data type                           *)
(* (brainzgraphinator.py, class WriteBatcher): it coalesces concurrent     *)
(* deliveries into one UNWIND transaction and hands each delivery its own  *)
(* verdict through a future.                                               *)
(*                                                                         *)
(* The service is one asyncio event loop, so the code between two awaits   *)
(* is one step here.  The awaits are the commit of a batch, the commit of  *)
(* one replayed record and the acquisition of commit_lock.                 *)
(***************************************************************************)
EXTENDS Integers, Sequences, FiniteSets, Enumeration

CONSTANTS
    Records,            \* records of this data type, numbered in publication order
    MaxAttempts,        \* how often the broker may deliver one record
    Nodes,              \* Discogs nodes of this type that are in the graph
    NoNode,             \* a record with no Discogs id, or whose node is absent
    Target,             \* the node each record enriches
    Poison,             \* records whose projection always raises
    BATCH_SIZE,         \* NEO4J_BATCH_SIZE
    SERIALIZE_FLUSHES,  \* NEO4J_SERIALIZE_FLUSHES
    MaxOutages,         \* bound on transient database failures
    MaxErrors           \* bound on other database failures of a sound record

ASSUME RecordsAssumption   == /\ Records \subseteq Nat \ {0}
                              /\ Poison \subseteq Records
ASSUME AttemptsAssumption  == MaxAttempts \in Nat \ {0}
ASSUME TargetAssumption    == Target \in [Records -> Nodes \cup {NoNode}]
ASSUME BatchSizeAssumption == BATCH_SIZE \in Nat \ {0}
ASSUME SerializeAssumption == SERIALIZE_FLUSHES \in BOOLEAN
ASSUME BudgetAssumption    == MaxOutages \in Nat /\ MaxErrors \in Nat

(***************************************************************************)
(* A delivery is one attempt at one record; the attempt is the position of *)
(* the delivery in the broker's x-delivery-count.                          *)
(***************************************************************************)
Deliveries == Records \X (1 .. MaxAttempts)

Verdicts == {"matched", "unmatched"}

VARIABLES
    pending,      \* WriteBatcher.pending
    timer,        \* whether WriteBatcher.timer is armed
    future,       \* the future of each delivery
    stage,        \* where the flush task of each batch is, by the batch's first delivery
    batch,        \* the queue slice each flush task took
    todo,         \* members of the batch the flush task still has to write
    commit_lock,  \* the asyncio.Lock: its holder, then its waiters in FIFO order
    graph,        \* the record whose projection each node carries, 0 for none
    committed,    \* history: records whose projection some transaction committed
    outages,      \* transient failures so far
    errors        \* other failures of sound records so far

taskVars == <<stage, batch, todo, commit_lock>>
graphVars == <<graph, committed>>
faultVars == <<outages, errors>>
batcherVars == <<pending, timer, future, taskVars, graphVars, faultVars>>

BatcherTypeOK ==
    /\ pending \in Seq(Deliveries)
    /\ timer \in BOOLEAN
    /\ future \in [Deliveries -> {"none", "open", "transient", "failed", "cancelled"} \cup Verdicts]
    /\ stage \in [Deliveries -> {"none", "created", "commit", "replay"}]
    /\ batch \in [Deliveries -> Seq(Deliveries)]
    /\ todo \in [Deliveries -> SUBSET Deliveries]
    /\ commit_lock \in Seq(Deliveries)
    /\ graph \in [Nodes -> Records \cup {0}]
    /\ committed \subseteq Records
    /\ outages \in 0 .. MaxOutages
    /\ errors \in 0 .. MaxErrors

BatcherInit ==
    /\ pending = <<>>
    /\ timer = FALSE
    /\ future = [d \in Deliveries |-> "none"]
    /\ stage = [d \in Deliveries |-> "none"]
    /\ batch = [d \in Deliveries |-> <<>>]
    /\ todo = [d \in Deliveries |-> {}]
    /\ commit_lock = <<>>
    /\ graph = [n \in Nodes |-> 0]
    /\ committed = {}
    /\ outages = 0
    /\ errors = 0

-----------------------------------------------------------------------------
(* Filling and flushing a batch. *)

Cut(queue) == IF Len(queue) < BATCH_SIZE THEN Len(queue) ELSE BATCH_SIZE

(***************************************************************************)
(* _flush_now on the given queue and futures: take the first BATCH_SIZE    *)
(* entries, rearm the timer for what is left, drop the members whose       *)
(* waiter is gone and start a flush task for the others.  Flush tasks take *)
(* commit_lock in the order of their creation, so a new one queues here.   *)
(***************************************************************************)
FlushNow(queue, fut) ==
    LET taken == SubSeq(queue, 1, Cut(queue))
        rest  == SubSeq(queue, Cut(queue) + 1, Len(queue))
        live  == {d \in {taken[i] : i \in DOMAIN taken} : fut[d] = "open"}
        t     == taken[1]
    IN  /\ pending' = rest
        /\ timer' = (rest # <<>>)
        /\ IF live = {}
           THEN UNCHANGED taskVars
           ELSE /\ stage' = [stage EXCEPT ![t] = "created"]
                /\ batch' = [batch EXCEPT ![t] = taken]
                /\ todo' = [todo EXCEPT ![t] = live]
                /\ commit_lock' = IF SERIALIZE_FLUSHES THEN Append(commit_lock, t)
                                                       ELSE commit_lock

(* submit, up to `await future`: a full batch is flushed, another one (re)arms the linger timer *)
Submit(d) ==
    LET queue == Append(pending, d)
        fut   == [future EXCEPT ![d] = "open"]
    IN  /\ future[d] = "none"
        /\ future' = fut
        /\ \/ /\ Len(queue) >= BATCH_SIZE
              /\ FlushNow(queue, fut)
           \/ /\ Len(queue) < BATCH_SIZE
              /\ pending' = queue
              /\ timer' = TRUE
              /\ UNCHANGED taskVars
        /\ UNCHANGED <<graphVars, faultVars>>

(* BATCH_LINGER ran out with no further arrival *)
FlushTimer ==
    /\ timer
    /\ FlushNow(pending, future)
    /\ UNCHANGED <<future, graphVars, faultVars>>

(* The task awaiting a future was cancelled, which cancels the future *)
CancelWaiter(d) ==
    /\ future[d] = "open"
    /\ future' = [future EXCEPT ![d] = "cancelled"]
    /\ UNCHANGED <<pending, timer, taskVars, graphVars, faultVars>>

-----------------------------------------------------------------------------
(* What a transaction does to the graph. *)

Enriches(d, n) == Target[d[1]] = n

(* Where the batch of t enriches node n *)
Positions(t, n) == {i \in DOMAIN batch[t] : batch[t][i] \in todo[t] /\ Enriches(batch[t][i], n)}

(* Mutant: the first duplicate wins *)
RepresentativeFirst(t, n) ==
    batch[t][CHOOSE i \in Positions(t, n) : \A j \in Positions(t, n) : i <= j]

(* _superseded: of the members that enrich one node, only the last one is written *)
Representative(t, n) ==
    batch[t][CHOOSE i \in Positions(t, n) : \A j \in Positions(t, n) : j <= i]

ApplyBatch(t) ==
    /\ graph' = [n \in Nodes |-> IF Positions(t, n) # {} THEN Representative(t, n)[1] ELSE graph[n]]
    /\ committed' = committed \cup {d[1] : d \in todo[t]}

ApplyOne(d) ==
    /\ graph' = [n \in Nodes |-> IF Enriches(d, n) THEN d[1] ELSE graph[n]]
    /\ committed' = committed \cup {d[1]}

(* Mutant: the node instead of the matched flag *)
VerdictNode(d) == Target[d[1]]

(* What the write of one record says of it: _replay reads its entities_enriched *)
Verdict(d) == IF Target[d[1]] = NoNode THEN "unmatched" ELSE "matched"

(* Set the futures of S that nobody has completed or cancelled yet *)
ResolveAll(S, outcome(_)) ==
    future' = [d \in Deliveries |-> IF d \in S /\ future[d] = "open" THEN outcome(d) ELSE future[d]]

Fail(S, outcome) == ResolveAll(S, LAMBDA d : outcome)

-----------------------------------------------------------------------------
(* What a batch transaction answers, by position. *)

LivePositions(t) == {i \in DOMAIN batch[t] : batch[t][i] \in todo[t]}

(* [item for item in batch if not item.future.done()]: the list _flush_now hands to _write *)
LiveBatch(t) ==
    LET s == Ascending(LivePositions(t)) IN [k \in DOMAIN s |-> batch[t][s[k]]]

SameNode(d, e) == Target[d[1]] = Target[e[1]]

(* The rows that wrote a node: the last index of each Discogs id whose node is there *)
Written(members) ==
    {j \in DOMAIN members : /\ Target[members[j][1]] # NoNode
                            /\ \A k \in DOMAIN members : k > j => ~SameNode(members[j], members[k])}

(* One flag per record of the batch: an earlier duplicate shares that of its representative *)
Flags(members) ==
    [i \in DOMAIN members |->
        IF \E j \in Written(members) : SameNode(members[i], members[j]) THEN "matched" ELSE "unmatched"]

(* zip(batch, flags): the future at each position gets the flag at that position *)
Zip(members, flags) ==
    LET positions(d) == {i \in DOMAIN members \cap DOMAIN flags : members[i] = d}
    IN  future' = [d \in Deliveries |-> IF future[d] = "open" /\ positions(d) # {}
                                        THEN flags[CHOOSE i \in positions(d) : TRUE]
                                        ELSE future[d]]

(* Mutant: the flags are zipped with the slice that still has the dropped members *)
AnswerUncut(t) == Zip(batch[t], Flags(LiveBatch(t)))

Answer(t) == Zip(LiveBatch(t), Flags(LiveBatch(t)))

-----------------------------------------------------------------------------
(* The flush task: _write, _commit and _replay. *)

(* Mutant: an exception path keeps the lock *)
ReleaseGuardNever == UNCHANGED commit_lock

ReleaseGuard ==
    commit_lock' = IF SERIALIZE_FLUSHES THEN Tail(commit_lock) ELSE commit_lock

FinishTask(t) ==
    /\ stage' = [stage EXCEPT ![t] = "none"]
    /\ batch' = [batch EXCEPT ![t] = <<>>]
    /\ todo' = [todo EXCEPT ![t] = {}]

PoisonedBatch(t) == \E d \in todo[t] : d[1] \in Poison

(* The task passes _commit_guard and opens its transaction *)
BeginCommit(t) ==
    /\ stage[t] = "created"
    /\ SERIALIZE_FLUSHES => t = Head(commit_lock)
    /\ stage' = [stage EXCEPT ![t] = "commit"]
    /\ UNCHANGED <<pending, timer, future, batch, todo, commit_lock, graphVars, faultVars>>

CommitOk(t) ==
    /\ stage[t] = "commit"
    /\ ~PoisonedBatch(t)
    /\ ApplyBatch(t)
    /\ Answer(t)
    /\ ReleaseGuard
    /\ FinishTask(t)
    /\ UNCHANGED <<pending, timer, faultVars>>

(***************************************************************************)
(* A transient failure fails every member.  Its transaction may have       *)
(* committed all the same: the connection can break after the COMMIT.      *)
(***************************************************************************)
CommitTransient(t) ==
    /\ stage[t] = "commit"
    /\ outages < MaxOutages
    /\ outages' = outages + 1
    /\ \/ UNCHANGED graphVars
       \/ ~PoisonedBatch(t) /\ ApplyBatch(t)
    /\ Fail(todo[t], "transient")
    /\ ReleaseGuard
    /\ FinishTask(t)
    /\ UNCHANGED <<pending, timer, errors>>

(* Mutant: no replay, the whole batch fails *)
CommitFailsTogether(t) ==
    /\ stage[t] = "commit"
    /\ \/ PoisonedBatch(t) /\ errors' = errors
       \/ errors < MaxErrors /\ errors' = errors + 1
    /\ Fail(todo[t], "failed")
    /\ FinishTask(t)
    /\ ReleaseGuard
    /\ UNCHANGED <<pending, timer, graphVars, outages>>

(***************************************************************************)
(* Any other failure, of a poison member or of the database.  A batch of   *)
(* one fails its delivery; a larger one is replayed record by record, and  *)
(* the replay runs outside commit_lock.                                    *)
(***************************************************************************)
CommitFails(t) ==
    /\ stage[t] = "commit"
    /\ \/ PoisonedBatch(t) /\ errors' = errors
       \/ errors < MaxErrors /\ errors' = errors + 1
    /\ \/ /\ Cardinality(todo[t]) = 1
          /\ Fail(todo[t], "failed")
          /\ FinishTask(t)
       \/ /\ Cardinality(todo[t]) # 1
          /\ stage' = [stage EXCEPT ![t] = "replay"]
          /\ UNCHANGED <<future, batch, todo>>
    /\ ReleaseGuard
    /\ UNCHANGED <<pending, timer, graphVars, outages>>

Before(b, d, e) == \E i, j \in DOMAIN b : i < j /\ b[i] = d /\ b[j] = e

NextToReplay(t, d) ==
    /\ stage[t] = "replay"
    /\ d \in todo[t]
    /\ ~\E e \in todo[t] : Before(batch[t], e, d)

(* Mutant: the replay loop ends after one record *)
ReplayedOnce(t, d) == FinishTask(t)

(* The task moves past d, and ends after its last member *)
Replayed(t, d) ==
    IF todo[t] = {d}
    THEN FinishTask(t)
    ELSE /\ todo' = [todo EXCEPT ![t] = @ \ {d}]
         /\ UNCHANGED <<stage, batch>>

ReplayOk(t, d) ==
    /\ NextToReplay(t, d)
    /\ d[1] \notin Poison
    /\ ApplyOne(d)
    /\ ResolveAll({d}, Verdict)
    /\ Replayed(t, d)
    /\ UNCHANGED <<pending, timer, commit_lock, faultVars>>

ReplayTransient(t, d) ==
    /\ NextToReplay(t, d)
    /\ outages < MaxOutages
    /\ outages' = outages + 1
    /\ \/ UNCHANGED graphVars
       \/ d[1] \notin Poison /\ ApplyOne(d)
    /\ Fail({d}, "transient")
    /\ Replayed(t, d)
    /\ UNCHANGED <<pending, timer, commit_lock, errors>>

ReplayFails(t, d) ==
    /\ NextToReplay(t, d)
    /\ \/ d[1] \in Poison /\ errors' = errors
       \/ errors < MaxErrors /\ errors' = errors + 1
    /\ Fail({d}, "failed")
    /\ Replayed(t, d)
    /\ UNCHANGED <<pending, timer, commit_lock, graphVars, outages>>

(* A flush task's transaction comes back, one way or another *)
CommitReturns(t) == CommitOk(t) \/ CommitTransient(t) \/ CommitFails(t)

ReplayReturns(t, d) == ReplayOk(t, d) \/ ReplayTransient(t, d) \/ ReplayFails(t, d)

(* What the timer and the flush tasks do on their own *)
TaskStep ==
    \/ FlushTimer
    \/ \E t \in Deliveries : \/ BeginCommit(t)
                             \/ CommitReturns(t)
                             \/ \E d \in Deliveries : ReplayReturns(t, d)

-----------------------------------------------------------------------------
(***************************************************************************)
(* The batcher on its own.  Its callers submit the records in publication  *)
(* order, a further attempt only after the previous one came to nothing,   *)
(* and any of them may be cancelled while it waits.                        *)
(***************************************************************************)
MaySubmit(d) ==
    IF d[2] = 1
    THEN \A r \in Records : r < d[1] => future[<<r, 1>>] # "none"
    ELSE future[<<d[1], d[2] - 1>>] \in {"transient", "failed", "cancelled"}

BatcherNext ==
    \/ TaskStep
    \/ \E d \in Deliveries : \/ MaySubmit(d) /\ Submit(d)
                             \/ CancelWaiter(d)

(***************************************************************************)
(* The event loop runs what is ready, and the driver ends every            *)
(* transaction: its retries are bounded by a deadline.                     *)
(***************************************************************************)
BatcherFairness ==
    /\ WF_batcherVars(FlushTimer)
    /\ \A t \in Deliveries :
        /\ WF_batcherVars(BeginCommit(t))
        /\ WF_batcherVars(CommitReturns(t))
        /\ WF_batcherVars(\E d \in Deliveries : ReplayReturns(t, d))

BatcherSpec == BatcherInit /\ [][BatcherNext]_batcherVars

FairBatcherSpec == BatcherSpec /\ BatcherFairness

-----------------------------------------------------------------------------
(* Properties. *)

Waiting == {pending[i] : i \in DOMAIN pending}

(***************************************************************************)
(* No delivery waits on a future nobody will complete: every open future   *)
(* is in the pending list with the linger timer armed, or is a member a    *)
(* live flush task still has to write.  _flush_now, _write and _replay all *)
(* take part in this.                                                      *)
(***************************************************************************)
NoOrphanedWaiter ==
    \A d \in Deliveries : future[d] = "open" =>
        \/ timer /\ d \in Waiting
        \/ \E t \in Deliveries : stage[t] # "none" /\ d \in todo[t]

(***************************************************************************)
(* A verdict is only given for a record a transaction committed, and it is *)
(* what a write of that record alone would have said: the flags a batch    *)
(* projection returns, one per live record with the duplicates collapsed,  *)
(* reach their own waiters through zip(batch, flags) although members were *)
(* dropped from the slice.                                                 *)
(***************************************************************************)
VerdictIsCommitted ==
    \A d \in Deliveries : future[d] \in Verdicts =>
        d[1] \in committed /\ future[d] = Verdict(d)

SpareFailures == {d \in Deliveries : future[d] = "failed" /\ d[1] \notin Poison}

(***************************************************************************)
(* A poison record fails alone: replaying its batch record by record means *)
(* that each other database error fails at most one sound record.          *)
(***************************************************************************)
NeighboursSpared == Cardinality(SpareFailures) <= errors

(***************************************************************************)
(* With serialized flushes, as long as no batch can have been replayed and *)
(* no record is delivered twice, a node carries the newest committed       *)
(* record that targets it: batches commit in the order they were filled,   *)
(* and within a batch the last duplicate wins.                             *)
(***************************************************************************)
NewestWins ==
    (/\ SERIALIZE_FLUSHES /\ errors = 0 /\ MaxAttempts = 1
     /\ \A d \in Deliveries : d[1] \in Poison => future[d] = "none") =>
        \A r \in committed : Target[r] # NoNode => graph[Target[r]] >= r

(***************************************************************************)
(* Every delivery that submits a record gets an answer, or is cancelled.   *)
(***************************************************************************)
EveryWaiterAnswered ==
    \A d \in Deliveries : future[d] = "open" ~> future[d] # "open"
=============================================================================
