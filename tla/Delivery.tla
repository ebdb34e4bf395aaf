------------------------------ MODULE Delivery ------------------------------
(***************************************************************************)
(* One data type's deliveries from the broker to their settlement: the     *)
(* quorum queue, the message handler (make_message_handler) with the       *)
(* shared run_delivery around it, the WriteBatcher it writes through, and  *)
(* the shutdown, restart, crash and connection loss that cut it short.     *)
(***************************************************************************)
EXTENDS WriteBatcher

CONSTANTS
    BATCH_MODE,      \* NEO4J_BATCH_MODE
    Controls,        \* file_complete and extraction_complete messages
    Malformed,       \* bodies that loads() rejects
    NoId,            \* bodies whose id is missing or empty
    DeliveryLimit,   \* x-delivery-limit of the quorum queue
    Prefetch,        \* prefetch_count of the channel
    MaxDisruptions   \* bound on crashes, connection losses and shutdowns

ASSUME ModeAssumption     == BATCH_MODE \in BOOLEAN
ASSUME MessagesAssumption == /\ Controls \subseteq Records
                             /\ Malformed \subseteq Records
                             /\ NoId \subseteq Records
                             /\ Controls \cap (Malformed \cup NoId) = {}
                             /\ Malformed \cap NoId = {}
ASSUME BrokerAssumption   == /\ DeliveryLimit \in Nat
                             /\ MaxAttempts = DeliveryLimit + 1
                             /\ Prefetch \in Nat \ {0}
                             /\ MaxDisruptions \in Nat

VARIABLES
    broker,      \* where the broker has each message
    returns,     \* x-delivery-count: how often each message came back
    handler,     \* where the handler task of each delivery is
    process,     \* the service process on its way through shutdown
    disruptions  \* crashes, connection losses and shutdowns so far

brokerVars == <<broker, returns>>
deliveryVars == <<batcherVars, broker, returns, handler, process, disruptions>>

HandlerStates ==
    {"none", "started", "waiting", "writing", "backoff", "ack", "requeue", "reject", "deferred", "done"}

DeliveryTypeOK ==
    /\ BatcherTypeOK
    /\ broker \in [Records -> {"ready", "unacked", "acked", "dead"}]
    /\ returns \in [Records -> 0 .. DeliveryLimit + 1]
    /\ handler \in [Deliveries -> HandlerStates]
    /\ process \in {"running", "stopping", "cancelled", "closed"}
    /\ disruptions \in 0 .. MaxDisruptions

DeliveryInit ==
    /\ BatcherInit
    /\ broker = [r \in Records |-> "ready"]
    /\ returns = [r \in Records |-> 0]
    /\ handler = [d \in Deliveries |-> "none"]
    /\ process = "running"
    /\ disruptions = 0

-----------------------------------------------------------------------------
(* The broker. *)

Latest(r) == <<r, returns[r] + 1>>

(* The channel d arrived on still holds it unacknowledged *)
Current(d) == broker[d[1]] = "unacked" /\ d = Latest(d[1])

Unacked == {r \in Records : broker[r] = "unacked"}

(* Mutant: no dead-lettering *)
GiveBackForever(S) ==
    /\ broker' = [r \in Records |-> IF r \in S THEN "ready" ELSE broker[r]]
    /\ returns' = [r \in Records |-> IF r \in S THEN returns[r] + 1 ELSE returns[r]]

(* Mutant: dead-lettered one return early *)
GiveBackEarly(S) ==
    /\ broker' = [r \in Records |-> IF r \notin S THEN broker[r]
                                    ELSE IF returns[r] + 1 < DeliveryLimit THEN "ready" ELSE "dead"]
    /\ returns' = [r \in Records |-> IF r \in S THEN returns[r] + 1 ELSE returns[r]]

(* Messages of S come back: each is counted, and dead-lettered past the limit *)
GiveBack(S) ==
    /\ broker' = [r \in Records |-> IF r \notin S THEN broker[r]
                                    ELSE IF returns[r] < DeliveryLimit THEN "ready" ELSE "dead"]
    /\ returns' = [r \in Records |-> IF r \in S THEN returns[r] + 1 ELSE returns[r]]

(* Returned messages are at the head of the queue, the others in publication order *)
AtHead(r) ==
    /\ broker[r] = "ready"
    /\ \/ returns[r] > 0
       \/ \A q \in Records : broker[q] = "ready" => returns[q] = 0 /\ r <= q

Deliver(r) ==
    /\ process \in {"running", "stopping"}
    /\ AtHead(r)
    /\ Cardinality(Unacked) < Prefetch
    /\ broker' = [broker EXCEPT ![r] = "unacked"]
    /\ handler' = [handler EXCEPT ![Latest(r)] = "started"]
    /\ UNCHANGED <<batcherVars, returns, process, disruptions>>

-----------------------------------------------------------------------------
(* The handler. *)

Becomes(d, state) == handler' = [handler EXCEPT ![d] = state]

(* Mutant: deliveries of a stopping service are nacked *)
DispositionNacking(d) ==
    CASE process # "running"   -> "requeue"
      [] d[1] \in Malformed    -> "requeue"
      [] d[1] \in Controls     -> "ack"
      [] d[1] \in NoId         -> "reject"
      [] OTHER                 -> "write"

(* Mutant: a record without id is acknowledged *)
DispositionLenient(d) ==
    CASE process # "running"   -> "deferred"
      [] d[1] \in Malformed    -> "requeue"
      [] d[1] \in Controls     -> "ack"
      [] d[1] \in NoId         -> "ack"
      [] OTHER                 -> "write"

(* What the handler decides about d without writing: DEFER, ACK of a control, REQUEUE, REJECT *)
Disposition(d) ==
    CASE process # "running"   -> "deferred"
      [] d[1] \in Malformed    -> "requeue"
      [] d[1] \in Controls     -> "ack"
      [] d[1] \in NoId         -> "reject"
      [] OTHER                 -> "write"

Dispose(d) ==
    /\ handler[d] = "started"
    /\ Disposition(d) # "write"
    /\ Becomes(d, Disposition(d))
    /\ UNCHANGED <<batcherVars, brokerVars, process, disruptions>>

SubmitWrite(d) ==
    /\ handler[d] = "started"
    /\ Disposition(d) = "write"
    /\ BATCH_MODE
    /\ Submit(d)
    /\ Becomes(d, "waiting")
    /\ UNCHANGED <<brokerVars, process, disruptions>>

(* Mutant: an unknown failure is swallowed *)
AfterFutureSwallowed(d) ==
    CASE future[d] \in Verdicts    -> "ack"
      [] future[d] = "transient"   -> "backoff"
      [] future[d] = "failed"      -> "ack"
      [] OTHER                     -> "waiting"

(* Mutant: an outage ends the handler without a settlement *)
AfterFutureDropped(d) ==
    CASE future[d] \in Verdicts    -> "ack"
      [] future[d] = "transient"   -> "done"
      [] future[d] = "failed"      -> "requeue"
      [] OTHER                     -> "waiting"

(* The awaited future is done: ACK, or the failure's classification *)
AfterFuture(d) ==
    CASE future[d] \in Verdicts    -> "ack"
      [] future[d] = "transient"   -> "backoff"
      [] future[d] = "failed"      -> "requeue"
      [] OTHER                     -> "waiting"

Resume(d) ==
    /\ handler[d] = "waiting"
    /\ AfterFuture(d) # "waiting"
    /\ Becomes(d, AfterFuture(d))
    /\ UNCHANGED <<batcherVars, brokerVars, process, disruptions>>

(* NEO4J_BATCH_MODE=false: _write_single, a transaction of the delivery's own *)
BeginWriteSingle(d) ==
    /\ handler[d] = "started"
    /\ Disposition(d) = "write"
    /\ ~BATCH_MODE
    /\ Becomes(d, "writing")
    /\ UNCHANGED <<batcherVars, brokerVars, process, disruptions>>

WriteSingleOk(d) ==
    /\ handler[d] = "writing"
    /\ d[1] \notin Poison
    /\ ApplyOne(d)
    /\ Becomes(d, "ack")
    /\ UNCHANGED <<pending, timer, future, taskVars, faultVars, brokerVars, process, disruptions>>

WriteSingleTransient(d) ==
    /\ handler[d] = "writing"
    /\ outages < MaxOutages
    /\ outages' = outages + 1
    /\ \/ UNCHANGED graphVars
       \/ d[1] \notin Poison /\ ApplyOne(d)
    /\ Becomes(d, "backoff")
    /\ UNCHANGED <<pending, timer, future, taskVars, errors, brokerVars, process, disruptions>>

(* Mutant: the failed write is acknowledged *)
WriteSingleFailsAcked(d) ==
    /\ handler[d] = "writing"
    /\ \/ d[1] \in Poison /\ errors' = errors
       \/ errors < MaxErrors /\ errors' = errors + 1
    /\ Becomes(d, "ack")
    /\ UNCHANGED <<pending, timer, future, taskVars, graphVars, outages, brokerVars, process, disruptions>>

WriteSingleFails(d) ==
    /\ handler[d] = "writing"
    /\ \/ d[1] \in Poison /\ errors' = errors
       \/ errors < MaxErrors /\ errors' = errors + 1
    /\ Becomes(d, "requeue")
    /\ UNCHANGED <<pending, timer, future, taskVars, graphVars, outages, brokerVars, process, disruptions>>

WriteSingleReturns(d) == WriteSingleOk(d) \/ WriteSingleTransient(d) \/ WriteSingleFails(d)

(* run_delivery awaits wait_before_requeue once for a transient failure *)
BackoffOver(d) ==
    /\ handler[d] = "backoff"
    /\ Becomes(d, "requeue")
    /\ UNCHANGED <<batcherVars, brokerVars, process, disruptions>>

(* run_delivery settles once; on a channel that is gone the settlement fails and is not retried *)
Settle(d) ==
    /\ handler[d] \in {"ack", "requeue", "reject"}
    /\ Becomes(d, "done")
    /\ \/ ~Current(d) /\ UNCHANGED brokerVars
       \/ /\ Current(d) /\ handler[d] = "ack"
          /\ broker' = [broker EXCEPT ![d[1]] = "acked"]
          /\ UNCHANGED returns
       \/ /\ Current(d) /\ handler[d] = "reject"
          /\ broker' = [broker EXCEPT ![d[1]] = "dead"]
          /\ UNCHANGED returns
       \/ /\ Current(d) /\ handler[d] = "requeue"
          /\ GiveBack({d[1]})
    /\ UNCHANGED <<batcherVars, process, disruptions>>

(* Closing a channel cancels the tasks of its deliveries; the handler does not settle then *)
CancelHandler(d) ==
    /\ ~Current(d)
    /\ handler[d] \notin {"none", "deferred", "done"}
    /\ Becomes(d, "done")
    /\ \/ CancelWaiter(d)
       \/ future[d] # "open" /\ UNCHANGED batcherVars
    /\ UNCHANGED <<brokerVars, process, disruptions>>

-----------------------------------------------------------------------------
(* Disruptions. *)

(* The connection breaks and is restored: what was unacknowledged is returned *)
ConnectionLost ==
    /\ process # "closed"
    /\ disruptions < MaxDisruptions
    /\ disruptions' = disruptions + 1
    /\ GiveBack(Unacked)
    /\ UNCHANGED <<batcherVars, handler, process>>

(* signal_handler: shutdown_requested *)
Shutdown ==
    /\ process = "running"
    /\ disruptions < MaxDisruptions
    /\ disruptions' = disruptions + 1
    /\ process' = "stopping"
    /\ UNCHANGED <<batcherVars, brokerVars, handler>>

(* cancel_all_consumers; it is best-effort, so CloseTransport does not wait for it *)
CancelConsumers ==
    /\ process = "stopping"
    /\ process' = "cancelled"
    /\ UNCHANGED <<batcherVars, brokerVars, handler, disruptions>>

(* close_rabbitmq_connection returns every unsettled delivery *)
CloseTransport ==
    /\ process \in {"stopping", "cancelled"}
    /\ process' = "closed"
    /\ GiveBack(Unacked)
    /\ UNCHANGED <<batcherVars, handler, disruptions>>

(* What the process kept in memory is gone; an open transaction is rolled back *)
ForgetMemory ==
    /\ pending' = <<>>
    /\ timer' = FALSE
    /\ future' = [d \in Deliveries |-> "none"]
    /\ stage' = [d \in Deliveries |-> "none"]
    /\ batch' = [d \in Deliveries |-> <<>>]
    /\ todo' = [d \in Deliveries |-> {}]
    /\ commit_lock' = <<>>
    /\ handler' = [d \in Deliveries |-> "none"]
    /\ process' = "running"
    /\ UNCHANGED <<graphVars, faultVars>>

Restart ==
    /\ process = "closed"
    /\ ForgetMemory
    /\ UNCHANGED <<brokerVars, disruptions>>

(***************************************************************************)
(* The process dies and comes back.  A commit that landed without the      *)
(* process learning of it is CommitOk followed at once by Crash.           *)
(***************************************************************************)
Crash ==
    /\ disruptions < MaxDisruptions
    /\ disruptions' = disruptions + 1
    /\ GiveBack(Unacked)
    /\ ForgetMemory

-----------------------------------------------------------------------------
BatcherStep ==
    /\ TaskStep
    /\ UNCHANGED <<brokerVars, handler, process, disruptions>>

HandlerStep(d) ==
    \/ Dispose(d)
    \/ SubmitWrite(d)
    \/ Resume(d)
    \/ BeginWriteSingle(d)
    \/ WriteSingleReturns(d)
    \/ BackoffOver(d)
    \/ Settle(d)

DeliveryNext ==
    \/ BatcherStep
    \/ \E r \in Records : Deliver(r)
    \/ \E d \in Deliveries : HandlerStep(d) \/ CancelHandler(d)
    \/ ConnectionLost
    \/ Shutdown
    \/ CancelConsumers
    \/ CloseTransport
    \/ Restart
    \/ Crash

(***************************************************************************)
(* The broker delivers what is ready, the event loop runs every ready      *)
(* task, every transaction ends, main() runs its teardown to the end and   *)
(* the supervisor starts the service again.                                *)
(***************************************************************************)
DeliveryFairness ==
    /\ WF_deliveryVars(\E r \in Records : Deliver(r))
    /\ \A d \in Deliveries : WF_deliveryVars(HandlerStep(d))
    /\ WF_deliveryVars(FlushTimer /\ UNCHANGED <<brokerVars, handler, process, disruptions>>)
    /\ \A t \in Deliveries :
        /\ WF_deliveryVars(BeginCommit(t) /\ UNCHANGED <<brokerVars, handler, process, disruptions>>)
        /\ WF_deliveryVars(CommitReturns(t) /\ UNCHANGED <<brokerVars, handler, process, disruptions>>)
        /\ WF_deliveryVars(/\ \E d \in Deliveries : ReplayReturns(t, d)
                           /\ UNCHANGED <<brokerVars, handler, process, disruptions>>)
    /\ WF_deliveryVars(CancelConsumers \/ CloseTransport)
    /\ WF_deliveryVars(CloseTransport)
    /\ WF_deliveryVars(Restart)

DeliverySpec == DeliveryInit /\ [][DeliveryNext]_deliveryVars

FairDeliverySpec == DeliverySpec /\ DeliveryFairness

-----------------------------------------------------------------------------
(* Properties. *)

(***************************************************************************)
(* A record leaves the queue as acknowledged only once a transaction wrote *)
(* it, whatever batch, replay, redelivery or restart lies between, and the *)
(* node it targets carries some projection from then on.                   *)
(***************************************************************************)
AckedIsCommitted ==
    \A r \in Records \ Controls : broker[r] = "acked" =>
        /\ r \in committed
        /\ Target[r] # NoNode => graph[Target[r]] # 0

(* Records that nothing but a fault can fail *)
Sound == Records \ (Poison \cup Malformed \cup NoId)

Faults == outages + errors + disruptions

(***************************************************************************)
(* The delivery count of a sound record never exceeds the faults that      *)
(* happened: a batch neighbour, a replay, a drain at shutdown or a         *)
(* settlement on a dead channel costs it nothing extra.  The comment on    *)
(* shutdown in the handler is about this: no nack while still subscribed.  *)
(***************************************************************************)
ReturnsAreCharged == \A r \in Sound : returns[r] <= Faults

Alive == {"started", "waiting", "writing", "backoff", "ack", "requeue", "reject"}

(***************************************************************************)
(* No message is stranded: the latest delivery of an unacknowledged one    *)
(* has a handler still on its way to a settlement, or the shutdown left it *)
(* for the transport's close to return.                                    *)
(***************************************************************************)
NothingStranded ==
    \A r \in Unacked :
        \/ handler[Latest(r)] \in Alive
        \/ handler[Latest(r)] = "deferred" /\ process # "running"

(***************************************************************************)
(* Every message is settled in the end: acknowledged or dead-lettered.     *)
(***************************************************************************)
EveryMessageSettled ==
    \A r \in Records : <>(broker[r] \in {"acked", "dead"})

-----------------------------------------------------------------------------
(* The abstract queue this implements. *)

Status == [r \in Records |-> IF broker[r] = "unacked" THEN "ready" ELSE broker[r]]

Contract == INSTANCE AtLeastOnce WITH
    Writable  <- Records \ (Poison \cup Malformed \cup NoId \cup Controls),
    Signals   <- Controls,
    Rejected  <- NoId,
    Limit     <- DeliveryLimit,
    status    <- Status,
    attempts  <- returns,
    applied   <- committed

(* The deliveries of one data type keep the contract of AtLeastOnce *)
KeepsContract == Contract!Spec
=============================================================================
