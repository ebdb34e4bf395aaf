# musicbrainz-graph-enricher in TLA+

Formal models of the service under `src/brainzgraphinator/`: it consumes MusicBrainz records from
RabbitMQ quorum queues (one per data type) and enriches Discogs nodes of a Neo4j graph with them.
TLC checks the models on small instances; TLAPS proves the properties that matter most for every
value of the constants. `PROJECT.json` lists components, runs, mutants, hazards, findings, theorems
and, under `map`, the source lines each definition stands for.

BG is `brainzgraphinator.py`, PR `_projections.py`, QL `_queue_lifecycle.py`; CP and MP are
`scripts/spike_tag_capture.py` and `scripts/spike_tag_mapping.py`.

## 1. Inventory

| Component | Where | State | Operations | Correct when |
|---|---|---|---|---|
| Write batcher | BG 793-967 | `pending`, linger `timer`, one future per delivery, flush tasks, `commit_lock` | `submit`, `_flush_now`, `_write`, `_commit`, `_replay` | each waiter gets the verdict of its own committed record, nobody waits for ever, a poison record fails alone |
| Delivery handling | BG 428-460, 970-1097; QL | broker's unacked set and delivery count, a handler task per delivery | dispose, write, classify, back off, settle; shutdown and restart | ACK only after the commit, every message settled, no delivery count spent without a fault |
| Consumer lifecycle | BG 92-133, 463-743, 1114-1302, 1434-1467 | `consumer_tags`, `completed_files`, grace timers, transport handles, `consumer_recovery_requested`, alarm clocks | completion signals, grace timers, bounded cancel and close, periodic checker, recovery, teardown | tags and subscriptions agree or a repair is due, incomplete types are consumed, shutdown ends |
| Release projection | PR 31-213, 253-344, 412-431, 460-550, 692-722 | `mb_hash`, media summary, `ISSUED_ON` edges, `Medium` nodes, node locks | gated SET, collapse, lock pass, stale sweep, prune, edges | digests are truthful, no medium in use is pruned, no orphan is left, no vocabulary deadlock |
| Artist, label, master projections | PR 216-250, 347-390, 434-450, 567-678, 725-746 | `mb_hash`, `mb_relations_hash`, relationship edges | gated SET, relationship MERGEs | a relation is retried until its target is in the graph, both ends write one edge |
| Queue topology | QL, `queue_names.py`, `catalog_contract.py` | exchanges, quorum queues with a delivery limit, dead-letter queues | declare, bind | a message returned past the limit is dead-lettered |
| Startup | BG 1305-1432 | driver, first connection, attempts | connect with retries, declare, register | it comes to an end, and the exit status tells the supervisor the truth |
| Tag mapping spike | CP, MP | request cache, budget, attempts, report lists | capture with retries, resume, greedy and beam traversal | completed tags can be replayed, every tag is reported once, every run ends |
| Configuration | `config.py`, BG 135-148 | environment values | read once | -- |
| Health, progress, statistics, telemetry | BG 176-445, 507-551, 948-957, 1114-1163 | counters, spans | read and log | no decision depends on them |

How they interact. Everything runs on one asyncio event loop, so code between two awaits is atomic
and everything else interleaves. The broker starts a handler task per delivery (up to the prefetch);
the handler decides what to do with the message, and in batch mode parks on a future that the batcher
of its type completes from a flush task. A flush task runs one projection in one Neo4j transaction.
Terminal messages (`file_complete`) make the handler mark the type complete and start a grace timer,
which later cancels the consumer and, when all types are idle, closes the transport. A periodic checker
looks at tags, backlog and a request flag and rebuilds the transport. `main()` tears all of it down.
The Discogs graph enricher is a second service that writes the same graph and the same media vocabulary.
The tag mapping spike is a separate command: it asks a provider for probabilities, one request per level
of a genre taxonomy, and a later replay walks the taxonomy over the stored answers.

What is hard here: waiters cancelled while their record is batched; one failing record in a shared
transaction; a commit whose answer is lost; a settlement on a channel that is gone; a process that dies
anywhere between commit and ACK; several tasks that cancel, close and reopen one transport, each with
deadlines that make an outcome unknown; counts read before an await and used after it; concurrent
transactions that lock shared nodes, prune them and attach to them.  `PROJECT.json` lists these hazards
line by line with the properties aimed at them.

## 2. Modules

| Module | Models | Composes |
|---|---|---|
| `WriteBatcher` | the batcher of one data type | -- |
| `AtLeastOnce` | abstract: what the service promises of one queue | -- |
| `Delivery` | handler, broker queue, shutdown, crash, connection loss | extends `WriteBatcher`, implements `AtLeastOnce` |
| `ConsumerLifecycle` | startup, timers, checker, recovery, teardown | -- |
| `ReleaseMedia` | releases batch projection under concurrent flushes | -- |
| `Enrichment` | artist, label and master projections, batch and per-message | -- |
| `TagCapture` | capture of tag mappings and the traversals that use them | -- |
| `Enumeration` | positions and rows in ascending order | extended by `WriteBatcher` and `ReleaseMedia` |
| `MC...` | constants for TLC | extend the module of their name |
| `WriteBatcherProofs`, `DeliveryProofs`, `ConsumerLifecycleProofs`, `ReleaseMediaProofs`, `EnrichmentProofs`, `TagCaptureProofs` | theorems | extend their module (`DeliveryProofs` also `WriteBatcherProofs`) |
| `FoldLemmas` | lemmas: a fold over a finite set exists and is unique; an enumeration is ascending | used by all but the proofs of `ConsumerLifecycle` and `Enrichment` |
| `ReleaseBatchProofs` | theorems about the folds of `ReleaseMedia` | extends `ReleaseMediaProofs` and `FoldLemmas` |

**WriteBatcher.** A delivery is a pair (record, attempt). `FlushNow` is `_flush_now`: take up to
`BATCH_SIZE` entries, rearm the timer for the rest, drop members whose future is done, start a task.
A flush task is named by its first delivery and goes `created` -> `commit` -> (`replay`) -> `none`.
Flush tasks reach `commit_lock` in the order they were created because asyncio locks are FIFO, so the
task queues in the step that creates it. A transaction's effect is the record each node carries, with
the duplicates of a batch collapsed to the last (`Representative`); `committed` is a history of what was
written. The answers of a batch go by position, as in the code: `LiveBatch` is the list without the dropped
members, `Flags` has one flag per entry of that list, with earlier duplicates sharing that of the last, and
`Answer` zips the two. `Verdict` is what a write of one record alone answers, as in the replay. A transient failure may hide a commit that landed. The branch for a cancelled flush task
(BG 864-866) happens when the loop is torn down, which `Delivery` has as Crash and Restart; the
`graph is None` branch cannot be reached once consumers run.

**Delivery.** `Disposition` is what the handler decides without writing (defer while stopping, requeue a
body it cannot parse, acknowledge control messages, reject a record without id). `run_delivery` of the
shared runtime is external: it settles once, after a backoff for transient failures, and a settlement on
a lost channel does nothing. `GiveBack` is the quorum queue: it counts each return and dead-letters past
the limit. A connection loss is one step, because the robust connection of the runtime restores itself;
`CancelConsumers` is best effort, so `CloseTransport` does not wait for it. A commit followed by the
process's death is `CommitOk` then `Crash`. What control messages do to completion is in
`ConsumerLifecycle`.

**ConsumerLifecycle.** One process per grace timer, the checker with the recovery it runs, and `main()`;
`closing[p]` is where each of them is in `close_rabbitmq_connection` and `held[p]` the object its pending
`close()` was called on. Connection and channel are created together and so one transport. The model
begins with the process: configuration and Neo4j may fail, the connection is tried `MAX_STARTUP_RETRIES`
times, consumers are subscribed and registered one type at a time while deliveries already arrive, and an
exception ends the process. Whatever part of each stream was settled before the process started is an
initial state. `Script` is what the producer publishes. A recovery's connect and channel are one call, so a
connection left open because its channel failed (BG 1235) is not told apart. `CONSUMER_CANCEL_DELAY` is
`"off"`, `"any"` (a timer may fire whenever it sleeps, during the recovery or the startup that started it
too) or `"long"` (it outlasts them, as the default of 300 s does). When a timer takes the transport from
under a recovery, the next call on it fails and so does the recovery (`Open`). Consumers are lost by
cancels, failed closes, failed recoveries and teardown; the broker ends none on its own account.

**ReleaseMedia.** A flush runs statement by statement: compare digests (`Begin`), lock the changed
releases in batch order, then families, then media (`Acquire` takes one lock at a time), sweep stale
edges and look for orphans, write the edges and commit. Locks last to the end of the transaction and
writes become visible at the commit. A deadlock is ended by the database. The plain DELETE's own abort
on a remaining relationship is left out: the locks make it unreachable, and `NoDanglingEdge` checks that.
SHA-256 is a digest without collisions. The order of edge rows is not kept; it only causes a harmless rewrite.
The single-record path runs the same statements on one record and is the batch of one.

**Enrichment.** A transaction reads the graph with its first statement (`Start`): one row per Discogs id,
the last one; rows whose node is in the graph; of these, the rows whose digest differs. In the batch path
an artist's relations are due when `mb_relations_hash` differs from their digest; the per-message path
(also the replay of a failed batch) always projects them and never stores that digest. `MergeType` is one
statement per edge type, `MergeRelation` one per relation; each path turns a backward relation round in code
of its own (`EdgeOfRow`, `EdgeOfRelation`). A relation whose target has no id or is not in
the graph yet makes its row `missed`, and `Commit` stores the digest of the other rows only. Any
transaction may roll back. `AddNode` is the Discogs enricher. `Facts` is what MusicBrainz knows: the
records of both ends tell it, one of them backward. Locks are left out, which only adds interleavings.

**TagCapture.** `Candidates` is `traverse`: two levels, zero probabilities dropped, the best `width` paths
kept at each level, a single option taken without asking. `Lacks` says which request it would have to
make next, so that a capture run is: ask for what is lacking, try again within `max_attempts`, give the
tag up, or stop when `max_requests` are spent. The provider may give any distribution, a rate limit, an
error or another model. `Resume` starts a run with the captures of the last one (the `cache` argument).
Probabilities are integer parts of `Total`, and a path's score is compared by its square, which for one or
two decisions orders paths as the geometric mean does; floating-point rounding of ties is not modelled.

## 3. Runs

| Run | Shows | Bounds |
|---|---|---|
| `batcher_flushes` | `NoOrphanedWaiter`, `VerdictIsCommitted`, `NeighboursSpared`, `NewestWins`, and `EveryWaiterAnswered` under fairness, through `commit_lock` | 4 records in batches of up to 3 (a full one and a lingering one), one poison, one outage, one other error, any waiter cancelled; two records share a node, one matches nothing |
| `delivery_batch` | `AckedIsCommitted`, `NothingStranded`, `ReturnsAreCharged`, the refinement `KeepsContract`, and `EveryMessageSettled` | a sound and a poison record of one node, delivery limit 1 (two deliveries each), one outage, one error, one crash, connection loss or shutdown |
| `delivery_single` | `AckedIsCommitted` and `KeepsContract` with `NEO4J_BATCH_MODE=false` | a record, a malformed body, a control message, a record without id |
| `lifecycle_teardown` | `GaugeMatchesTags`, `NoGhostConsumer`, `NoLostSubscription`, `ExitIsHonest` | from process start, with a grace delay of any length; 2 types, each a record and its end, any part of them settled before; two connection attempts, one failing broker call, one requeue; two transports |
| `lifecycle_served` | `RequestServed`, `IncompleteTypeServed`, `NewWorkServed`, `ShutdownCompletes`, `StartupDecides` under fairness, and `RecoveryOwnsTransport`, which a grace delay shorter than a recovery breaks | a long grace delay; 2 types; both streams end and a record follows, without faults, or one stream is over at the start and one call fails |
| `lifecycle_stop` | violation, see findings | the terminal signals alone |
| `lifecycle_uncomplete` | violation, see findings | the terminal signals alone |
| `media_flushes` | `DigestTellsMedia`, `NoDanglingEdge`, `NoOrphanLeft`, `VocabularyNeverDeadlocks`, `CollapseIsExact` | 2 flushes at once, for ever; 2 releases, 2 media of 2 families, 6 batches, 2 Discogs edges |
| `media_deadlock` | violation, see findings | as above |
| `media_collapse` | violation, see findings | one flush and a batch with duplicates |
| `artist_relations` | `RelationsDigestEarned`, `EdgesAreFacts`, `ReplayResolves` | 2 transactions at once, for ever; 3 artists, a label and a master, each in the graph from the start or later; a batch with both ends of a relationship and one with duplicates; a relation without target, an unsupported one, a backward one |
| `tag_capture` | `CompletedReplays`, `BeamIsNoWorse`, `EveryTagReported`, and `RunEnds` under fairness | 2 tags, one listed twice; 3 genres, one without styles, so that the beam has one first choice too many; 3 requests and 2 attempts per run, any number of resumed runs |

The bounds are the smallest at which the cases happen: two batches of a type open at once with a
replay beside the next commit (parallel flushes are in `delivery_batch`, and in the theorems for any number); a redelivery that meets the first attempt's write; a second type that keeps the
transport open; two transports for the old and the new one; two flushes that share releases and media in
either order. The passing runs fire every action. Deadlock checking is off where the behaviour may end
(all scripted messages settled, the process stopped, a capture refused) and on in `ReleaseMedia` and
`Enrichment`, whose flushes never end.
Every property has a mutant of the code that breaks it (`EdgesAreFacts` one for each path); a definition commented "Mutant" is one of these
and no specification uses it.

Symmetry is used for the transactions of `artist_relations`, where no definition picks one by name and
no property is a liveness property.

**Fairness.** Weak fairness on the timer, on each flush task and each handler (the event loop runs what is
ready, and the driver's retries have a deadline), on the broker's deliveries and replies, on the checker,
the recovery and `main()` (their broker calls have deadlines). Deliveries to a consumer in
`ConsumerLifecycle` are strongly fair: one takes moments, and the checker sleeps `STUCK_CHECK_INTERVAL`
between two recoveries, so a re-subscribed consumer is not cut off for ever before its first message. The
grace delay is long there: with one shorter than an acknowledgement, the same terminal signal could come
back and close the transport of every recovery in turn. In
`Delivery` the supervisor restarts the service. The tag capture runs on, because a call to the provider
returns or raises. Publishing, signals and faults are not fair.

## 4. Findings

- **A batch drops media that sequential delivery writes** (`media_collapse`). Only the last record of a
  Discogs release in a batch is projected; if it has no media block, the summary and edges of an earlier
  one are never written. PR 515 and `docs/graph-enrichment.md` say the node is left as sequential delivery
  would. `CollapseIsExact` shows it is, whenever the last duplicate has a media block.
- **Parallel flushes can still deadlock** (`media_deadlock`), on Release nodes, which are locked in batch
  order; BG 144 says they no longer do. The database and the driver's retry resolve it.
  `VocabularyNeverDeadlocks` shows that families and media are never part of it.
- **A completed type's consumer may never stop** (`lifecycle_stop`). The recovery cancels all grace timers
  and registers every type again, completed ones without a timer.
- **A finished type is un-completed without a backlog** (`lifecycle_uncomplete`). The recovery acts on
  message counts it read before the awaits; a terminal signal handled meanwhile is forgotten.

Seen and not stated as a finding: with `NEO4J_SERIALIZE_FLUSHES` the replay of a batch runs outside the
lock, beside the next commit, so `NewestWins` stops at the first replay; without it nothing orders two
batches of one type. `docs/musicbrainz-sync.md` still describes one transaction per delivery. Cancelling a
timer whose Basic.Cancel is in flight requests a second, superfluous recovery. The digests cover all
relations in the order of the message, unsupported ones included, so a reordered or irrelevant relation
causes a rewrite that changes nothing. `extrapolate` (CP 246) divides the requests of failed and skipped
tags, too, by the number of completed ones.

## 5. Proofs

All theorems hold for every value of the constants allowed by the named ASSUMEs: for any number of
records, attempts, data types, flushes, releases, media and tags, and any budget of faults. Every safety
property that a passing run checks is stated by a theorem. The argument is the same throughout: an
inductive invariant, a lemma per action that the action keeps it, and the property as a part or a
consequence of it.

**WriteBatcher.**
- `BatcherTypeCorrect`, from `TypeInv = BatcherTypeOK /\ LockQueue`: a task at its commit is the head of
  `commit_lock`, without which releasing the lock would not be type correct.
- `VerdictsAreCommitted`: `VerdictIsCommitted` is inductive together with `TypeInv`. The flag at a position
  of the live batch is the verdict of the record there (`FlagIsVerdict`: a duplicate's representative has its
  node), every live member has a position (`LiveBatchMembers`, from `AscendingIsSorted`), and so zipping by
  position gives each member its own (`AnswerIsOwnVerdict`).
- `NoWaiterOrphaned`, from `WaiterInv`, which adds `Fresh`: a queued delivery occurs once and names no live
  flush task yet, so starting a task never overwrites another one's members.
- `NeighboursAreSpared`, from `SparedInv`, which adds `MembersInBatch`: what a flush task still has to write
  is part of its finite queue slice, so a batch of one holds exactly one record. Each step fails no sound
  record, or one while an error is counted.
- `NewestRecordWins`, from `OrderInv`: as long as nothing was replayed or delivered twice (`InOnePass`),
  the queue is ascending and newer than every task, and the tasks wait for `commit_lock` in the order of
  their members (`InOrder`). `NewestWins` alone says nothing about what is still to be committed.

**Delivery.**
- `DeliveryTypeCorrect`, from `DeliveryInv`: the batcher's invariant, the types, and `InQueue` (a message
  still in the queue has a delivery left).
- `AcknowledgedIsCommitted`: `AckInv` follows the commit from the verdict to the handler's decision to the
  broker; `MembersInBatch` and `OnNode` add that collapsing duplicates leaves no targeted node empty.
- `NoMessageStranded`: the property with `ClosedInv`, that a closed transport has given everything back.
- `ReturnsChargedToFaults`, from `ChargeInv`: the returns of a sound record plus those that are certain to
  come (`Owed` by a failed write, `OwedByShutdown`) never exceed the faults. The property counts a return
  only once it happened, the fault that causes it comes earlier; the debt bridges the two.
- `ContractKept`: `DeliverySpec => KeepsContract`, the refinement. An unacknowledged message is `ready` in
  the contract. Beyond the invariants above it needs `WriteInv`: only a record that is neither malformed,
  nor a control message, nor without id gets as far as a transaction, and only the last kind is rejected.
  Batcher steps are `Apply` or nothing, settlements `Acknowledge`, `Reject` or `Return`, disruptions `Return`.

**ConsumerLifecycle.** One invariant, `LifecycleInv`, carries all six theorems (`LifecycleTypeCorrect`,
`GaugeIsAccurate`, `GhostsAreNoticed`, `SubscriptionsAreKnown`, `TransportIsOwned`, `ExitStatusIsHonest`).
None of the properties is inductive alone. `ClosersInv` says who is inside `close_rabbitmq_connection`,
`PhaseInv` which tasks can be alive together (a recovery that opens a transport, until its first
subscription, has cancelled every timer that could close one), `HandlesInv` that every pending close and the
recovery hold the transport the handles name, `TagsInv` which types can have a tag, `BrokerInv` what the
broker still holds for the process, and `GhostInv` is `NoGhostConsumer` from the first subscription on.
With a grace delay of any length timers may fire while types are being subscribed; `JoinInv` says that none
is then cancelling a type that has no tag yet, so no late Basic.Cancel hits a new subscription. Only
`TransportIsOwned` assumes that the delay is not `"any"` (`LongGraceInv`).

**ReleaseMedia.**
- `DigestsTellMedia`: the digest and the media of a release are written together, whatever interleaves.
- `NoEdgeDangles`, `LastEdgeTakesMedium`, `NoVocabularyDeadlock`, from `MediaInv`. `LockInv` says that every
  lock of a statement that has begun is held or still wanted (`DueAt`), that a flush wants and holds
  nothing beyond its statement (`WantAt`), and that families and media are wanted in ascending order above
  those held (`OrderAt`). So what `Sweep` found orphaned is still orphaned at the commit (`PrunedInv`), and
  a circle of waiting flushes would need a smallest wanted lock held by one of them.
- `ReleaseTypeCorrect`, from `TypedInv`. That a quantity is a number at all needs `FoldLemmas`: `EdgeRows`
  adds up with a recursive function on sets of positions, whose existence has to be shown.
- `CollapsesExactly`: `Sequentially` is such a function too; the states it goes through are a sequence of
  nodes (`OneAfterAnother`). Records of other releases leave the node alone (`Stays`). The last record of
  the release is written, or was already there: with the digest of a record the node carries what the
  record writes (`RewriteIsIdle`, from `Truthful` and `DigestAssumption`), so a skipped row is no different
  from a written one. A row that the gate skipped is only right while its comparison still holds; this is
  the premise `GateIsFresh` of the property.

**Enrichment.** `TypeCorrect`, `DigestsAreEarned`, `OnlyFacts` and `ReplaysResolve`, from one inductive
`Inv`. `Tracked` says of a row that has missed nothing so far that each of its edges is merged or still to
do, which makes the digest stored at the commit earned. `Resolving` says the same of every relation whose
ends were in the graph at the start, or that its edge is there already: for a row the gate skipped, that
is `Earned`, so the two properties need each other. `Known` and `Carries` say where edges and rows come from.

**TagCapture.** `CaptureTypeCorrect`, `CompletedTagsReplay`, `BeamNeverLoses` and `TagsAreReported`, from
`RunInv`: the tags before the one at hand are completed or failed, each once (`Accounted`), and a completed
one lacks no capture (`Captured`). The latter is stable because an answer is stored for the tag at hand
only (`RequestLacks`, `LacksStable`) and no tag is pending twice (`PendingTags`, a fold). `OrderedByScore`
shows that the sort key of `traverse` is a total order, so that every beam holds the best candidate; that
there is a candidate at all needs that the probabilities of a valid distribution are not all zero
(`SomeOption`, a fold again).

**Folds.** The library's induction theorems cannot be used here, so `FoldLemmas` argues with a minimal
counterexample: the strict subset order of a finite set is well founded (`MinimalSubset`), hence a fold
exists (`FoldExists`) and two functions that recur alike are equal (`SameRecursion`). What a sum or a
collapse returns is then read off the function that exists.

**Assumptions** worth a word, all true of the code: `VocabularyAssumption` (the canonical media are
finitely many, with ids that can be sorted), `BatchesAssumption` and `RecordsAssumption` (a batch is a
list), `DigestAssumption` (a missing `mb_hash` is never equal to a digest, nor the digest of a record with a
media block to that of one without), `TaxonomyAssumption` (finitely many genres and styles, none of them
with a reserved label), `LifecycleBudgets` and `BudgetAssumption` (the faults of a run are finitely many).

Only model-checked, because fairness is outside the prover's reach: `EveryWaiterAnswered`,
`EveryMessageSettled`, `RequestServed`, `IncompleteTypeServed`, `NewWorkServed`, `ShutdownCompletes`,
`StartupDecides` and `RunEnds`. The four violations are TLC's counterexamples.

## 6. Not modelled

The health thread (a torn read shows a stale answer, nothing acts on it); progress log, statistics, spans
and metrics other than the active consumers gauge; environment parsing; the text of release events and
other row fields (part of the digest's row); declaring and binding queues, which has no state of its own
here; of the tag mapping spike, the inventory, the accuracy table and the cost extrapolation, which compute
figures from a finished run; benchmarks, the taxonomy export, CI scripts, contracts and fixtures.

## 7. Plan

In order; the first four groups are done.

1. `WriteBatcher`, `Delivery` over `AtLeastOnce`, `ConsumerLifecycle`, `ReleaseMedia`; their first theorems.
2. `Enrichment` with its theorems; startup in `ConsumerLifecycle`; `TagCapture`.
3. `NeighboursSpared` with finite-set cardinality.
4. The remaining safety properties of every passing run as theorems: `WriteBatcher`, `Delivery`,
   `ConsumerLifecycle`, `ReleaseMedia` with its folds, `TagCapture`.
5. An abstract specification of one data type's stream (served, over, served again) that
   `ConsumerLifecycle` implements up to its two findings, and of the write batcher (each record applied
   before its waiter hears of it); both as refinements with a theorem.
6. A recovery whose connect succeeds and whose channel fails, told apart (BG 1235).
