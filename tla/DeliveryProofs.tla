--------------------------- MODULE DeliveryProofs ---------------------------
(***************************************************************************)
(* Theorems about Delivery, for every set of messages, delivery limit,     *)
(* batch size and bound on faults.                                         *)
(***************************************************************************)
EXTENDS Delivery, WriteBatcherProofs

(* What the proofs use of the batcher underneath *)
BatcherInv == TypeInv /\ VerdictIsCommitted /\ MembersInBatch /\ OnNode

(* A message that is still in the queue can be delivered once more *)
InQueue == \A r \in Records : broker[r] \in {"ready", "unacked"} => returns[r] <= DeliveryLimit

DeliveryInv == BatcherInv /\ DeliveryTypeOK /\ InQueue

-----------------------------------------------------------------------------
(* The batcher under Delivery. *)

(* A step that leaves the batcher alone keeps its invariant *)
LEMMA BatcherStutter ==
    ASSUME BatcherInv, UNCHANGED batcherVars
    PROVE  BatcherInv'
<1>1. TypeInv'
  BY StutterType DEF BatcherInv
<1>2. UNCHANGED <<pending, timer, future, stage, batch, todo, commit_lock, graph, committed, outages, errors>>
  BY DEF batcherVars, taskVars, graphVars, faultVars
<1> QED BY <1>1, <1>2 DEF BatcherInv, VerdictIsCommitted, Verdict, MembersInBatch, Occurs, OnNode

(* A step of the batcher keeps it *)
LEMMA BatcherAnyStep ==
    ASSUME BatcherInv, AnyStep
    PROVE  BatcherInv'
BY StepType, StepLock, StepVerdict, StepMembersInBatch, StepOnNode DEF BatcherInv, TypeInv

(* _write_single, a transaction beside the batcher, keeps it and commits at most its own record *)
LEMMA WriteSingleKeeps ==
    ASSUME BatcherInv, NEW d \in Deliveries, WriteSingleReturns(d)
    PROVE  /\ BatcherInv'
           /\ committed \subseteq committed'
           /\ committed' \subseteq committed \cup ({d[1]} \ Poison)
<1>1. UNCHANGED <<pending, timer, future, stage, batch, todo, commit_lock>>
  BY DEF WriteSingleReturns, WriteSingleOk, WriteSingleTransient, WriteSingleFails, taskVars
<1>2. UNCHANGED <<graph, committed>> \/ (ApplyOne(d) /\ d[1] \notin Poison)
  BY DEF WriteSingleReturns, WriteSingleOk, WriteSingleTransient, WriteSingleFails, graphVars
<1>3. BatcherTypeOK /\ OnNode
  BY DEF BatcherInv, TypeInv
<1>4. outages' \in 0 .. MaxOutages /\ errors' \in 0 .. MaxErrors
  BY <1>3, BudgetAssumption
     DEF WriteSingleReturns, WriteSingleOk, WriteSingleTransient, WriteSingleFails, faultVars, BatcherTypeOK
<1>5. graph' \in [Nodes -> Records \cup {0}] /\ committed' \subseteq Records /\ OnNode'
  <2>1. CASE UNCHANGED <<graph, committed>>
    BY <1>3, <2>1 DEF BatcherTypeOK, OnNode
  <2>2. CASE ApplyOne(d)
    BY <1>3, <2>2, ApplyOneType, ApplyOneOnNode
  <2> QED BY <1>2, <2>1, <2>2
<1>6. /\ committed \subseteq committed'
      /\ committed' \subseteq committed \cup ({d[1]} \ Poison)
  BY <1>2 DEF ApplyOne
<1>7. BatcherTypeOK'
  BY <1>1, <1>3, <1>4, <1>5 DEF BatcherTypeOK
<1>8. LockQueue' /\ MembersInBatch' /\ VerdictIsCommitted'
  BY <1>1, <1>6 DEF BatcherInv, TypeInv, LockQueue, MembersInBatch, Occurs, VerdictIsCommitted, Verdict
<1> QED BY <1>5, <1>6, <1>7, <1>8 DEF BatcherInv, TypeInv

(* A restarted process has an empty batcher over the same graph *)
LEMMA ForgetKeeps ==
    ASSUME BatcherInv, ForgetMemory
    PROVE  BatcherInv' /\ committed' = committed
<1>1. <<>> \in Seq(Deliveries)
  BY EmptySeq
<1>2. UNCHANGED <<graph, committed, outages, errors>>
  BY DEF ForgetMemory, graphVars, faultVars
<1>3. /\ pending' \in Seq(Deliveries) /\ commit_lock' \in Seq(Deliveries)
      /\ batch' \in [Deliveries -> Seq(Deliveries)] /\ todo' \in [Deliveries -> SUBSET Deliveries]
  BY <1>1 DEF ForgetMemory
<1>4. BatcherTypeOK'
  BY <1>2, <1>3 DEF ForgetMemory, BatcherInv, TypeInv, BatcherTypeOK
<1>5. LockQueue' /\ MembersInBatch' /\ OnNode'
  BY <1>2 DEF ForgetMemory, LockQueue, MembersInBatch, OnNode, BatcherInv
<1>6. VerdictIsCommitted'
  BY DEF ForgetMemory, VerdictIsCommitted, Verdicts
<1> QED BY <1>2, <1>4, <1>5, <1>6 DEF BatcherInv, TypeInv

(* So every step of the service keeps the invariant of the batcher, and no commit is taken back *)
LEMMA StepBatcher ==
    ASSUME BatcherInv, DeliveryNext
    PROVE  BatcherInv' /\ committed \subseteq committed'
<1>1. CASE UNCHANGED batcherVars
  BY <1>1, BatcherStutter DEF batcherVars, graphVars
<1>2. CASE AnyStep
  BY <1>2, BatcherAnyStep, StepCommitted DEF BatcherInv
<1>3. ASSUME NEW d \in Deliveries, WriteSingleReturns(d) PROVE BatcherInv' /\ committed \subseteq committed'
  BY <1>3, WriteSingleKeeps
<1>4. CASE ForgetMemory
  BY <1>4, ForgetKeeps
<1>5. \/ UNCHANGED batcherVars
      \/ AnyStep
      \/ \E d \in Deliveries : WriteSingleReturns(d)
      \/ ForgetMemory
  BY DEF DeliveryNext, BatcherStep, AnyStep, Deliver, HandlerStep, Dispose, SubmitWrite, Resume,
         BeginWriteSingle, BackoffOver, Settle, CancelHandler, ConnectionLost, Shutdown,
         CancelConsumers, CloseTransport, Restart, Crash
<1> QED BY <1>1, <1>2, <1>3, <1>4, <1>5

-----------------------------------------------------------------------------
(* Type correctness. *)

(* What comes back is ready again within the limit, and dead past it *)
LEMMA GiveBackType ==
    ASSUME DeliveryTypeOK, InQueue, NEW S, S \subseteq Unacked, GiveBack(S)
    PROVE  /\ broker' \in [Records -> {"ready", "unacked", "acked", "dead"}]
           /\ returns' \in [Records -> 0 .. DeliveryLimit + 1]
           /\ InQueue'
<1>1. /\ broker \in [Records -> {"ready", "unacked", "acked", "dead"}]
      /\ returns \in [Records -> 0 .. DeliveryLimit + 1]
      /\ DeliveryLimit \in Nat
  BY BrokerAssumption DEF DeliveryTypeOK
<1>2. \A r \in S : r \in Records /\ returns[r] <= DeliveryLimit
  BY DEF Unacked, InQueue
<1>3. broker' \in [Records -> {"ready", "unacked", "acked", "dead"}]
  BY <1>1 DEF GiveBack
<1>4. ASSUME NEW r \in Records
      PROVE  /\ returns'[r] \in 0 .. DeliveryLimit + 1
             /\ broker'[r] \in {"ready", "unacked"} => returns'[r] <= DeliveryLimit
  <2>1. CASE r \in S
    <3>1. returns'[r] = returns[r] + 1 /\ returns[r] \in 0 .. DeliveryLimit
      BY <1>1, <1>2, <2>1 DEF GiveBack
    <3>2. broker'[r] = IF returns[r] < DeliveryLimit THEN "ready" ELSE "dead"
      BY <2>1 DEF GiveBack
    <3> QED BY <1>1, <3>1, <3>2
  <2>2. CASE r \notin S
    BY <1>1, <2>2 DEF GiveBack, InQueue
  <2> QED BY <2>1, <2>2
<1>5. returns' \in [Records -> 0 .. DeliveryLimit + 1]
  BY <1>4 DEF GiveBack
<1> QED BY <1>3, <1>4, <1>5 DEF InQueue

(* Each step of the handler, the broker and the process keeps the types *)
LEMMA StepDeliveryType ==
    ASSUME DeliveryInv, DeliveryNext
    PROVE  DeliveryTypeOK' /\ InQueue'
<1> DEFINE B == broker' \in [Records -> {"ready", "unacked", "acked", "dead"}]
           R == returns' \in [Records -> 0 .. DeliveryLimit + 1]
           H == handler' \in [Deliveries -> HandlerStates]
           P == process' \in {"running", "stopping", "cancelled", "closed"}
           D == disruptions' \in 0 .. MaxDisruptions
<1>1. /\ broker \in [Records -> {"ready", "unacked", "acked", "dead"}]
      /\ returns \in [Records -> 0 .. DeliveryLimit + 1]
      /\ handler \in [Deliveries -> HandlerStates]
      /\ process \in {"running", "stopping", "cancelled", "closed"}
      /\ disruptions \in 0 .. MaxDisruptions
      /\ DeliveryTypeOK /\ InQueue
  BY DEF DeliveryInv, DeliveryTypeOK
<1>2. ASSUME NEW d, NEW state \in HandlerStates, Becomes(d, state) PROVE H
  BY <1>1, <1>2 DEF Becomes
<1>3. ASSUME UNCHANGED brokerVars PROVE B /\ R /\ InQueue'
  BY <1>1, <1>3 DEF brokerVars, InQueue
<1>4. ASSUME disruptions < MaxDisruptions, disruptions' = disruptions + 1 PROVE D
  BY <1>1, <1>4, BrokerAssumption
<1>5. ASSUME NEW S, S \subseteq Unacked, GiveBack(S) PROVE B /\ R /\ InQueue'
  BY <1>1, <1>5, GiveBackType
<1>6. BatcherTypeOK'
  BY StepBatcher DEF DeliveryInv, BatcherInv, TypeInv
<1>7. CASE BatcherStep
  BY <1>1, <1>3, <1>6, <1>7 DEF BatcherStep, DeliveryTypeOK
<1>8. ASSUME NEW r \in Records, Deliver(r) PROVE B /\ R /\ H /\ P /\ D /\ InQueue'
  <2>1. /\ broker[r] = "ready" /\ broker' = [broker EXCEPT ![r] = "unacked"]
        /\ handler' = [handler EXCEPT ![Latest(r)] = "started"]
        /\ UNCHANGED <<returns, process, disruptions>>
    BY <1>8 DEF Deliver, AtHead
  <2> QED BY <1>1, <2>1 DEF InQueue, HandlerStates
<1>9. ASSUME NEW d \in Deliveries, HandlerStep(d) PROVE B /\ R /\ H /\ P /\ D /\ InQueue'
  <2>1. CASE Dispose(d)
    <3>1. Disposition(d) \in HandlerStates
      BY <2>1 DEF Dispose, Disposition, HandlerStates
    <3> QED BY <1>1, <1>2, <1>3, <2>1, <3>1 DEF Dispose
  <2>2. CASE SubmitWrite(d)
    BY <1>1, <1>2, <1>3, <2>2 DEF SubmitWrite, HandlerStates
  <2>3. CASE Resume(d)
    <3>1. AfterFuture(d) \in HandlerStates
      BY DEF AfterFuture, HandlerStates
    <3> QED BY <1>1, <1>2, <1>3, <2>3, <3>1 DEF Resume
  <2>4. CASE BeginWriteSingle(d)
    BY <1>1, <1>2, <1>3, <2>4 DEF BeginWriteSingle, HandlerStates
  <2>5. CASE WriteSingleReturns(d)
    <3>1. \E state \in {"ack", "backoff", "requeue"} : Becomes(d, state)
      BY <2>5 DEF WriteSingleReturns, WriteSingleOk, WriteSingleTransient, WriteSingleFails
    <3>2. UNCHANGED brokerVars /\ UNCHANGED <<process, disruptions>>
      BY <2>5 DEF WriteSingleReturns, WriteSingleOk, WriteSingleTransient, WriteSingleFails
    <3> QED BY <1>1, <1>2, <1>3, <3>1, <3>2 DEF HandlerStates
  <2>6. CASE BackoffOver(d)
    BY <1>1, <1>2, <1>3, <2>6 DEF BackoffOver, HandlerStates
  <2>7. CASE Settle(d)
    <3>1. H /\ P /\ D
      BY <1>1, <1>2, <2>7 DEF Settle, HandlerStates
    <3>2. CASE UNCHANGED brokerVars
      BY <1>3, <3>1, <3>2
    <3>3. CASE \E end \in {"acked", "dead"} : broker' = [broker EXCEPT ![d[1]] = end] /\ UNCHANGED returns
      BY <1>1, <3>1, <3>3 DEF InQueue
    <3>4. CASE Current(d) /\ GiveBack({d[1]})
      <4>1. {d[1]} \subseteq Unacked
        BY <3>4 DEF Current, Unacked, Deliveries
      <4> QED BY <1>5, <3>1, <3>4, <4>1
    <3> QED BY <2>7, <3>2, <3>3, <3>4 DEF Settle
  <2> QED BY <1>9, <2>1, <2>2, <2>3, <2>4, <2>5, <2>6, <2>7 DEF HandlerStep
<1>10. ASSUME NEW d \in Deliveries, CancelHandler(d) PROVE B /\ R /\ H /\ P /\ D /\ InQueue'
  BY <1>1, <1>2, <1>3, <1>10 DEF CancelHandler, HandlerStates
<1>11. CASE ConnectionLost
  BY <1>1, <1>4, <1>5, <1>6, <1>11 DEF ConnectionLost, DeliveryTypeOK
<1>12. CASE Shutdown
  BY <1>1, <1>3, <1>4, <1>6, <1>12 DEF Shutdown, DeliveryTypeOK
<1>13. CASE CancelConsumers
  BY <1>1, <1>3, <1>6, <1>13 DEF CancelConsumers, DeliveryTypeOK
<1>14. CASE CloseTransport
  BY <1>1, <1>5, <1>6, <1>14 DEF CloseTransport, DeliveryTypeOK
<1>15. ASSUME ForgetMemory PROVE H /\ P
  BY <1>15 DEF ForgetMemory, HandlerStates
<1>16. CASE Restart
  BY <1>1, <1>3, <1>6, <1>15, <1>16 DEF Restart, DeliveryTypeOK
<1>17. CASE Crash
  BY <1>4, <1>5, <1>6, <1>15, <1>17 DEF Crash, DeliveryTypeOK
<1> QED BY <1>6, <1>7, <1>8, <1>9, <1>10, <1>11, <1>12, <1>13, <1>14, <1>16, <1>17
        DEF DeliveryNext, DeliveryTypeOK

(* The service starts with every message ready and nothing in memory *)
LEMMA InitDelivery == DeliveryInit => DeliveryInv
<1> SUFFICES ASSUME DeliveryInit PROVE DeliveryInv
  OBVIOUS
<1>1. BatcherInit
  BY DEF DeliveryInit
<1>2. TypeInv
  BY <1>1, InitType
<1>3. BatcherInv
  BY <1>1, <1>2 DEF BatcherInit, BatcherInv, VerdictIsCommitted, Verdicts, MembersInBatch, OnNode
<1>4. returns \in [Records -> 0 .. DeliveryLimit + 1] /\ disruptions \in 0 .. MaxDisruptions /\ InQueue
  BY BrokerAssumption DEF DeliveryInit, InQueue
<1>5. DeliveryTypeOK
  BY <1>2, <1>4 DEF TypeInv, DeliveryInit, DeliveryTypeOK, HandlerStates
<1> QED BY <1>3, <1>4, <1>5 DEF DeliveryInv

(* DeliveryInv is inductive *)
LEMMA DeliveryInvStep == DeliveryInv /\ [DeliveryNext]_deliveryVars => DeliveryInv'
<1>1. ASSUME DeliveryInv, DeliveryNext PROVE DeliveryInv'
  BY <1>1, StepBatcher, StepDeliveryType DEF DeliveryInv
<1>2. ASSUME DeliveryInv, UNCHANGED deliveryVars PROVE DeliveryInv'
  <2>1. UNCHANGED batcherVars /\ UNCHANGED <<broker, returns, handler, process, disruptions>>
    BY <1>2 DEF deliveryVars
  <2>2. BatcherInv'
    BY <1>2, <2>1, BatcherStutter DEF DeliveryInv
  <2> QED BY <1>2, <2>1, <2>2 DEF DeliveryInv, BatcherInv, TypeInv, DeliveryTypeOK, InQueue
<1> QED BY <1>1, <1>2

(***************************************************************************)
(* Deliveries are type correct: in particular no message is delivered      *)
(* again past the delivery limit its queue was declared with               *)
(* (declare_stream_queue), whatever returns it.                            *)
(***************************************************************************)
THEOREM DeliveryTypeCorrect == DeliverySpec => []DeliveryTypeOK
<1>1. DeliveryInv => DeliveryTypeOK
  BY DEF DeliveryInv
<1> QED BY InitDelivery, DeliveryInvStep, <1>1, PTL DEF DeliverySpec

-----------------------------------------------------------------------------
(* Acknowledged means committed. *)

(* A handler about to acknowledge, and an acknowledged message, have their commit behind them *)
AckInv ==
    /\ \A d \in Deliveries : handler[d] = "ack" => d[1] \in committed \cup Controls
    /\ \A r \in Records : broker[r] = "acked" => r \in committed \cup Controls

(* Only a control message, a verdict or a single write leads to an acknowledgement *)
LEMMA StepAck ==
    ASSUME DeliveryInv, AckInv, DeliveryNext
    PROVE  AckInv'
<1>1. /\ broker \in [Records -> {"ready", "unacked", "acked", "dead"}]
      /\ handler \in [Deliveries -> HandlerStates]
  BY DEF DeliveryInv, DeliveryTypeOK
<1>2. committed \subseteq committed'
  BY StepBatcher DEF DeliveryInv
<1>3. ASSUME \A d \in Deliveries : handler'[d] = "ack" =>
                 handler[d] = "ack" \/ d[1] \in committed' \cup Controls,
             \A r \in Records : broker'[r] = "acked" =>
                 broker[r] = "acked" \/ r \in committed' \cup Controls
      PROVE  AckInv'
  BY <1>2, <1>3 DEF AckInv
<1>4. ASSUME NEW e \in Deliveries, NEW state, Becomes(e, state),
             state = "ack" => e[1] \in committed' \cup Controls
      PROVE  \A d \in Deliveries : handler'[d] = "ack" =>
                 handler[d] = "ack" \/ d[1] \in committed' \cup Controls
  BY <1>1, <1>4 DEF Becomes
<1>5. ASSUME NEW S, GiveBack(S) PROVE \A r \in Records : broker'[r] = "acked" => broker[r] = "acked"
  BY <1>1, <1>5 DEF GiveBack
<1>6. CASE BatcherStep
  BY <1>3, <1>6 DEF BatcherStep, brokerVars
<1>7. ASSUME NEW r \in Records, Deliver(r) PROVE AckInv'
  BY <1>1, <1>3, <1>7 DEF Deliver
<1>8. ASSUME NEW d \in Deliveries, HandlerStep(d) PROVE AckInv'
  <2>1. CASE Dispose(d)
    <3>1. Disposition(d) = "ack" => d[1] \in Controls
      BY DEF Disposition
    <3> QED BY <1>3, <1>4, <2>1, <3>1 DEF Dispose, brokerVars
  <2>2. CASE SubmitWrite(d)
    BY <1>3, <1>4, <2>2 DEF SubmitWrite, brokerVars
  <2>3. CASE Resume(d)
    <3>1. AfterFuture(d) = "ack" => d[1] \in committed
      BY DEF AfterFuture, DeliveryInv, BatcherInv, VerdictIsCommitted
    <3> QED BY <1>2, <1>3, <1>4, <2>3, <3>1 DEF Resume, brokerVars
  <2>4. CASE BeginWriteSingle(d)
    BY <1>3, <1>4, <2>4 DEF BeginWriteSingle, brokerVars
  <2>5. CASE WriteSingleOk(d)
    BY <1>3, <1>4, <2>5 DEF WriteSingleOk, ApplyOne, brokerVars
  <2>6. CASE WriteSingleTransient(d)
    BY <1>3, <1>4, <2>6 DEF WriteSingleTransient, brokerVars
  <2>7. CASE WriteSingleFails(d)
    BY <1>3, <1>4, <2>7 DEF WriteSingleFails, brokerVars
  <2>8. CASE BackoffOver(d)
    BY <1>3, <1>4, <2>8 DEF BackoffOver, brokerVars
  <2>9. CASE Settle(d)
    <3>1. \A e \in Deliveries : handler'[e] = "ack" => handler[e] = "ack"
      BY <1>1, <2>9 DEF Settle, Becomes
    <3>2. handler[d] = "ack" => d[1] \in committed' \cup Controls
      BY <1>2 DEF AckInv
    <3>3. CASE UNCHANGED brokerVars
      BY <1>3, <3>1, <3>3 DEF brokerVars
    <3>4. CASE handler[d] = "ack" /\ broker' = [broker EXCEPT ![d[1]] = "acked"]
      BY <1>1, <1>3, <3>1, <3>2, <3>4
    <3>5. CASE broker' = [broker EXCEPT ![d[1]] = "dead"]
      BY <1>1, <1>3, <3>1, <3>5
    <3>6. CASE GiveBack({d[1]})
      BY <1>3, <1>5, <3>1, <3>6
    <3> QED BY <2>9, <3>3, <3>4, <3>5, <3>6 DEF Settle
  <2> QED BY <1>8, <2>1, <2>2, <2>3, <2>4, <2>5, <2>6, <2>7, <2>8, <2>9 DEF HandlerStep, WriteSingleReturns
<1>9. ASSUME NEW d \in Deliveries, CancelHandler(d) PROVE AckInv'
  BY <1>3, <1>4, <1>9 DEF CancelHandler, brokerVars
<1>10. CASE ConnectionLost \/ CloseTransport
  BY <1>3, <1>5, <1>10 DEF ConnectionLost, CloseTransport
<1>11. CASE Shutdown \/ CancelConsumers
  BY <1>3, <1>11 DEF Shutdown, CancelConsumers, brokerVars
<1>12. CASE Restart
  BY <1>3, <1>12 DEF Restart, ForgetMemory, brokerVars
<1>13. CASE Crash
  BY <1>3, <1>5, <1>13 DEF Crash, ForgetMemory
<1> QED BY <1>6, <1>7, <1>8, <1>9, <1>10, <1>11, <1>12, <1>13 DEF DeliveryNext

(***************************************************************************)
(* An acknowledged record is in the graph, for every number of records,    *)
(* redeliveries, batches and faults.  The invariant follows the commit     *)
(* from the flush task through the future and the handler to the broker    *)
(* (VerdictIsCommitted, AckInv), and OnNode adds that collapsing the       *)
(* duplicates of a batch leaves none of its nodes without a projection.    *)
(***************************************************************************)
THEOREM AcknowledgedIsCommitted == DeliverySpec => []AckedIsCommitted
<1> DEFINE Inv == DeliveryInv /\ AckInv
<1>1. DeliveryInit => Inv
  BY InitDelivery DEF DeliveryInit, AckInv
<1>2. Inv /\ [DeliveryNext]_deliveryVars => Inv'
  <2>1. Inv /\ DeliveryNext => AckInv'
    BY StepAck
  <2>2. Inv /\ UNCHANGED deliveryVars => AckInv'
    BY DEF deliveryVars, batcherVars, graphVars, AckInv
  <2> QED BY DeliveryInvStep, <2>1, <2>2
<1>3. Inv => AckedIsCommitted
  BY DEF DeliveryInv, BatcherInv, OnNode, AckInv, AckedIsCommitted
<1> QED BY <1>1, <1>2, <1>3, PTL DEF DeliverySpec

-----------------------------------------------------------------------------
(* The contract. *)

(* Only records get as far as a transaction, and only those without an id are rejected *)
WriteInv ==
    /\ \A d \in Deliveries : Member(d) \/ handler[d] = "writing" =>
           d[1] \notin Malformed \cup NoId \cup Controls
    /\ \A d \in Deliveries : handler[d] = "reject" => d[1] \in NoId

(* What the handler does not dispose of is a record to write *)
LEMMA DispositionWrite ==
    ASSUME NEW d
    PROVE  /\ Disposition(d) = "write" => d[1] \notin Malformed \cup NoId \cup Controls
           /\ Disposition(d) = "reject" => d[1] \in NoId
           /\ Disposition(d) # "writing"
BY DEF Disposition

(* WriteInv is kept by every step *)
LEMMA StepWriteInv ==
    ASSUME DeliveryInv, WriteInv, DeliveryNext
    PROVE  WriteInv'
<1>1. handler \in [Deliveries -> HandlerStates] /\ TypeInv
  BY DEF DeliveryInv, BatcherInv, DeliveryTypeOK
<1>2. ASSUME \A d \in Deliveries : Member(d)' => Member(d) \/ d[1] \notin Malformed \cup NoId \cup Controls,
             \A d \in Deliveries : handler'[d] = "writing" =>
                 handler[d] = "writing" \/ d[1] \notin Malformed \cup NoId \cup Controls,
             \A d \in Deliveries : handler'[d] = "reject" => handler[d] = "reject" \/ d[1] \in NoId
      PROVE  WriteInv'
  BY <1>2 DEF WriteInv, Member
<1>3. ASSUME UNCHANGED batcherVars \/ UNCHANGED <<pending, todo>>, NEW d \in Deliveries, Member(d)' PROVE Member(d)
  BY <1>3 DEF Member, Occurs, batcherVars, taskVars
<1>4. ASSUME NEW e \in Deliveries, NEW state, Becomes(e, state),
             state = "writing" => e[1] \notin Malformed \cup NoId \cup Controls,
             state = "reject" => e[1] \in NoId
      PROVE  /\ \A d \in Deliveries : handler'[d] = "writing" =>
                    handler[d] = "writing" \/ d[1] \notin Malformed \cup NoId \cup Controls
             /\ \A d \in Deliveries : handler'[d] = "reject" => handler[d] = "reject" \/ d[1] \in NoId
  BY <1>1, <1>4 DEF Becomes
<1>5. CASE BatcherStep
  BY <1>1, <1>2, <1>5, TaskMembers DEF BatcherStep
<1>6. ASSUME NEW r \in Records, Deliver(r) PROVE WriteInv'
  BY <1>1, <1>2, <1>3, <1>6 DEF Deliver
<1>7. ASSUME NEW d \in Deliveries, HandlerStep(d) PROVE WriteInv'
  <2>1. CASE Dispose(d)
    BY <1>2, <1>3, <1>4, <2>1, DispositionWrite DEF Dispose
  <2>2. CASE SubmitWrite(d)
    <3>1. \A e \in Deliveries : Member(e)' => e = d \/ Member(e)
      BY <1>1, <2>2, SubmitMembers DEF SubmitWrite
    <3>2. d[1] \notin Malformed \cup NoId \cup Controls
      BY <2>2, DispositionWrite DEF SubmitWrite
    <3> QED BY <1>2, <1>4, <2>2, <3>1, <3>2 DEF SubmitWrite
  <2>3. CASE Resume(d)
    <3>1. AfterFuture(d) # "writing" /\ AfterFuture(d) # "reject"
      BY DEF AfterFuture
    <3> QED BY <1>2, <1>3, <1>4, <2>3, <3>1 DEF Resume
  <2>4. CASE BeginWriteSingle(d)
    BY <1>2, <1>3, <1>4, <2>4, DispositionWrite DEF BeginWriteSingle
  <2>5. CASE WriteSingleReturns(d)
    <3>1. UNCHANGED <<pending, todo>> /\ \E state \in {"ack", "backoff", "requeue"} : Becomes(d, state)
      BY <2>5 DEF WriteSingleReturns, WriteSingleOk, WriteSingleTransient, WriteSingleFails, taskVars
    <3> QED BY <1>2, <1>3, <1>4, <3>1
  <2>6. CASE BackoffOver(d) \/ Settle(d)
    <3>1. UNCHANGED batcherVars /\ \E state \in {"requeue", "done"} : Becomes(d, state)
      BY <2>6 DEF BackoffOver, Settle
    <3> QED BY <1>2, <1>3, <1>4, <3>1
  <2> QED BY <1>7, <2>1, <2>2, <2>3, <2>4, <2>5, <2>6 DEF HandlerStep
<1>8. ASSUME NEW d \in Deliveries, CancelHandler(d) PROVE WriteInv'
  <2>1. \A e \in Deliveries : Member(e)' => Member(e)
    BY <1>1, <1>3, <1>8, TaskMembers DEF CancelHandler
  <2> QED BY <1>2, <1>4, <1>8, <2>1 DEF CancelHandler
<1>9. CASE ConnectionLost \/ CloseTransport \/ Shutdown \/ CancelConsumers
  BY <1>2, <1>3, <1>9 DEF ConnectionLost, CloseTransport, Shutdown, CancelConsumers
<1>10. CASE ForgetMemory
  BY <1>10 DEF ForgetMemory, WriteInv, Member, Occurs
<1> QED BY <1>5, <1>6, <1>7, <1>8, <1>9, <1>10 DEF DeliveryNext, Restart, Crash

(* A step that commits records and touches no message is an Apply of the contract *)
LEMMA AppliesContract ==
    ASSUME DeliveryInv, DeliveryInv', UNCHANGED <<broker, returns>>, committed \subseteq committed',
           \A r \in committed' \ committed : r \notin Poison \cup Malformed \cup NoId \cup Controls
    PROVE  Contract!Apply
<1>1. committed' \subseteq Records
  BY DEF DeliveryInv, BatcherInv, TypeInv, BatcherTypeOK
<1>2. (committed' \ committed) \in SUBSET (Records \ (Poison \cup Malformed \cup NoId \cup Controls))
  BY <1>1
<1>3. committed' = committed \cup (committed' \ committed)
  OBVIOUS
<1>4. UNCHANGED <<Status, returns>>
  BY DEF Status
<1> QED BY <1>2, <1>3, <1>4 DEF Contract!Apply

(* Messages that come back make a Return of the contract *)
LEMMA GiveBackReturns ==
    ASSUME DeliveryInv, NEW S \in SUBSET Unacked, GiveBack(S), UNCHANGED committed
    PROVE  Contract!Next
<1>1. /\ broker \in [Records -> {"ready", "unacked", "acked", "dead"}]
      /\ returns \in [Records -> 0 .. DeliveryLimit + 1]
      /\ DeliveryLimit \in Nat
  BY BrokerAssumption DEF DeliveryInv, DeliveryTypeOK
<1>2. S \in SUBSET Records /\ \A r \in S : broker[r] = "unacked"
  BY DEF Unacked
<1>3. \A r \in S : Status[r] = "ready"
  BY <1>2 DEF Status
<1>4. Status' = [r \in Records |-> IF r \in S /\ returns[r] >= DeliveryLimit THEN "dead" ELSE Status[r]]
  <2>1. ASSUME NEW r \in Records
        PROVE  (IF broker'[r] = "unacked" THEN "ready" ELSE broker'[r])
                   = IF r \in S /\ returns[r] >= DeliveryLimit THEN "dead" ELSE Status[r]
    <3>1. Status[r] = IF broker[r] = "unacked" THEN "ready" ELSE broker[r]
      BY DEF Status
    <3>2. CASE r \in S
      <4>1. broker'[r] = IF returns[r] < DeliveryLimit THEN "ready" ELSE "dead"
        BY <3>2 DEF GiveBack
      <4>2. returns[r] < DeliveryLimit <=> ~(returns[r] >= DeliveryLimit)
        BY <1>1
      <4> QED BY <1>2, <3>1, <3>2, <4>1, <4>2
    <3>3. CASE r \notin S
      BY <3>1, <3>3 DEF GiveBack
    <3> QED BY <3>2, <3>3
  <2> QED BY <2>1 DEF Status
<1>5. Contract!Return(S)
  BY <1>3, <1>4 DEF Contract!Return, GiveBack
<1> QED BY <1>2, <1>5 DEF Contract!Next

(* Every step of the service is a step of the contract, or invisible to it *)
LEMMA StepContract ==
    ASSUME DeliveryInv, DeliveryInv', AckInv, WriteInv, DeliveryNext
    PROVE  Contract!Next \/ UNCHANGED <<Status, returns, committed>>
<1>1. /\ broker \in [Records -> {"ready", "unacked", "acked", "dead"}]
      /\ BatcherInv /\ TypeInv
  BY DEF DeliveryInv, DeliveryTypeOK, BatcherInv
<1>2. ASSUME UNCHANGED <<broker, returns>>, UNCHANGED batcherVars
      PROVE  UNCHANGED <<Status, returns, committed>>
  BY <1>2 DEF Status, batcherVars, graphVars
<1>3. ASSUME AnyStep, UNCHANGED <<broker, returns>> PROVE Contract!Next
  BY <1>1, <1>3, StepCommitted, AppliesContract DEF WriteInv, Contract!Next
<1>4. ASSUME NEW S \in SUBSET Unacked, GiveBack(S), UNCHANGED committed PROVE Contract!Next
  BY <1>4, GiveBackReturns
<1>5. CASE BatcherStep
  BY <1>3, <1>5 DEF BatcherStep, AnyStep, brokerVars
<1>6. ASSUME NEW r \in Records, Deliver(r) PROVE UNCHANGED <<Status, returns, committed>>
  <2>1. broker[r] = "ready" /\ broker' = [broker EXCEPT ![r] = "unacked"]
    BY <1>6 DEF Deliver, AtHead
  <2>2. Status' = Status
    BY <1>1, <2>1 DEF Status
  <2> QED BY <1>6, <2>2 DEF Deliver, batcherVars, graphVars
<1>7. ASSUME NEW d \in Deliveries, HandlerStep(d)
      PROVE  Contract!Next \/ UNCHANGED <<Status, returns, committed>>
  <2>1. CASE Dispose(d) \/ Resume(d) \/ BeginWriteSingle(d) \/ BackoffOver(d)
    BY <1>2, <2>1 DEF Dispose, Resume, BeginWriteSingle, BackoffOver, brokerVars
  <2>2. CASE SubmitWrite(d)
    BY <1>3, <2>2 DEF SubmitWrite, AnyStep, brokerVars
  <2>3. CASE WriteSingleReturns(d)
    <3>1. UNCHANGED <<broker, returns>> /\ handler[d] = "writing"
      BY <2>3 DEF WriteSingleReturns, WriteSingleOk, WriteSingleTransient, WriteSingleFails, brokerVars
    <3>2. \A r \in committed' \ committed : r \notin Poison \cup Malformed \cup NoId \cup Controls
      BY <1>1, <2>3, <3>1, WriteSingleKeeps DEF WriteInv
    <3> QED BY <1>1, <2>3, <3>1, <3>2, WriteSingleKeeps, AppliesContract DEF Contract!Next
  <2>4. CASE Settle(d)
    <3>1. d[1] \in Records /\ UNCHANGED committed
      BY <2>4 DEF Settle, batcherVars, graphVars, Deliveries
    <3>2. CASE UNCHANGED brokerVars
      BY <1>2, <2>4, <3>2 DEF Settle, brokerVars
    <3>3. ASSUME Current(d), NEW end \in {"acked", "dead"}, broker' = [broker EXCEPT ![d[1]] = end]
          PROVE  Status[d[1]] = "ready" /\ Status' = [Status EXCEPT ![d[1]] = end]
      BY <1>1, <3>1, <3>3 DEF Current, Status
    <3>4. CASE Current(d) /\ handler[d] = "ack" /\ broker' = [broker EXCEPT ![d[1]] = "acked"] /\ UNCHANGED returns
      <4>1. Contract!Acknowledge(d[1])
        BY <3>1, <3>3, <3>4 DEF AckInv, Contract!Acknowledge
      <4> QED BY <3>1, <4>1 DEF Contract!Next
    <3>5. CASE Current(d) /\ handler[d] = "reject" /\ broker' = [broker EXCEPT ![d[1]] = "dead"] /\ UNCHANGED returns
      <4>1. Contract!Reject(d[1])
        BY <3>1, <3>3, <3>5 DEF WriteInv, Contract!Reject
      <4> QED BY <3>1, <4>1 DEF Contract!Next
    <3>6. CASE Current(d) /\ GiveBack({d[1]})
      BY <1>4, <3>1, <3>6 DEF Current, Unacked
    <3> QED BY <2>4, <3>2, <3>4, <3>5, <3>6 DEF Settle
  <2> QED BY <1>7, <2>1, <2>2, <2>3, <2>4 DEF HandlerStep
<1>8. ASSUME NEW d \in Deliveries, CancelHandler(d)
      PROVE  Contract!Next \/ UNCHANGED <<Status, returns, committed>>
  BY <1>2, <1>3, <1>8 DEF CancelHandler, AnyStep, brokerVars
<1>9. CASE ConnectionLost \/ CloseTransport
  BY <1>4, <1>9 DEF ConnectionLost, CloseTransport, batcherVars, graphVars
<1>10. CASE Shutdown \/ CancelConsumers
  BY <1>2, <1>10 DEF Shutdown, CancelConsumers, brokerVars
<1>11. CASE Restart
  BY <1>11 DEF Restart, ForgetMemory, brokerVars, graphVars, Status
<1>12. CASE Crash
  BY <1>4, <1>12 DEF Crash, ForgetMemory, graphVars
<1> QED BY <1>5, <1>6, <1>7, <1>8, <1>9, <1>10, <1>11, <1>12 DEF DeliveryNext

(***************************************************************************)
(* The deliveries of one data type implement the at-least-once queue of    *)
(* AtLeastOnce, for every set of messages, delivery limit, batch size,     *)
(* batch or single mode and bound on faults: an unacknowledged message of  *)
(* the broker is a ready one of the contract.                              *)
(***************************************************************************)
THEOREM ContractKept == DeliverySpec => KeepsContract
<1> DEFINE Inv == DeliveryInv /\ AckInv /\ WriteInv
<1>1. DeliveryInit => Inv
  <2>1. DeliveryInit => AckInv /\ WriteInv
    BY DEF DeliveryInit, BatcherInit, AckInv, WriteInv, Member, Occurs
  <2> QED BY <2>1, InitDelivery
<1>2. Inv /\ [DeliveryNext]_deliveryVars => Inv'
  <2>1. Inv /\ DeliveryNext => AckInv' /\ WriteInv'
    BY StepAck, StepWriteInv
  <2>2. Inv /\ UNCHANGED deliveryVars => AckInv' /\ WriteInv'
    BY DEF deliveryVars, batcherVars, taskVars, graphVars, AckInv, WriteInv, Member, Occurs
  <2> QED BY DeliveryInvStep, <2>1, <2>2
<1>3. DeliveryInit => Contract!Init
  BY DEF DeliveryInit, BatcherInit, Contract!Init, Status
<1>4. Inv /\ Inv' /\ [DeliveryNext]_deliveryVars => [Contract!Next]_<<Status, returns, committed>>
  <2>1. UNCHANGED deliveryVars => UNCHANGED <<Status, returns, committed>>
    BY DEF deliveryVars, batcherVars, graphVars, Status
  <2> QED BY <2>1, StepContract
<1> QED BY <1>1, <1>2, <1>3, <1>4, PTL DEF DeliverySpec, KeepsContract, Contract!Spec

-----------------------------------------------------------------------------
(* No message is stranded. *)

(* Closing the transport gave everything back, and nothing is delivered until the restart *)
ClosedInv == process = "closed" => Unacked = {}

(* Giving messages back leaves none of them unacknowledged, and no other one newly so *)
LEMMA GiveBackUnacked ==
    ASSUME DeliveryTypeOK, NEW S, S \subseteq Records, GiveBack(S)
    PROVE  Unacked' = Unacked \ S
<1>1. broker \in [Records -> {"ready", "unacked", "acked", "dead"}]
  BY DEF DeliveryTypeOK
<1>2. ASSUME NEW r \in Records PROVE broker'[r] = "unacked" <=> broker[r] = "unacked" /\ r \notin S
  BY <1>1 DEF GiveBack
<1> QED BY <1>2 DEF Unacked

(* The latest delivery of a message in the queue is one of the deliveries *)
LEMMA LatestIsDelivery ==
    ASSUME DeliveryInv, NEW r \in Records, broker[r] \in {"ready", "unacked"}
    PROVE  Latest(r) \in Deliveries
<1>1. returns[r] \in 0 .. DeliveryLimit
  BY BrokerAssumption DEF DeliveryInv, DeliveryTypeOK, InQueue
<1> QED BY <1>1, BrokerAssumption DEF Latest, Deliveries

(***************************************************************************)
(* Only a settlement on the channel that still holds the message ends its  *)
(* latest handler, and only a channel that is gone cancels one.            *)
(***************************************************************************)
LEMMA StepStranded ==
    ASSUME DeliveryInv, NothingStranded, ClosedInv, DeliveryNext
    PROVE  NothingStranded' /\ ClosedInv'
<1>1. /\ broker \in [Records -> {"ready", "unacked", "acked", "dead"}]
      /\ handler \in [Deliveries -> HandlerStates]
      /\ DeliveryTypeOK
  BY DEF DeliveryInv, DeliveryTypeOK
<1>2. Unacked \subseteq Records
  BY DEF Unacked
<1>3. ASSUME UNCHANGED <<broker, returns, handler, process>> PROVE NothingStranded' /\ ClosedInv'
  BY <1>3 DEF NothingStranded, ClosedInv, Unacked, Latest
<1>4. ASSUME GiveBack(Unacked) PROVE NothingStranded' /\ ClosedInv'
  <2>1. Unacked' = {}
    BY <1>1, <1>2, <1>4, GiveBackUnacked
  <2> QED BY <2>1 DEF NothingStranded, ClosedInv
<1>5. CASE BatcherStep
  BY <1>3, <1>5 DEF BatcherStep, brokerVars
<1>6. ASSUME NEW r \in Records, Deliver(r) PROVE NothingStranded' /\ ClosedInv'
  <2>1. /\ process \in {"running", "stopping"} /\ broker[r] = "ready"
        /\ broker' = [broker EXCEPT ![r] = "unacked"]
        /\ handler' = [handler EXCEPT ![Latest(r)] = "started"]
        /\ UNCHANGED <<returns, process>>
    BY <1>6 DEF Deliver, AtHead
  <2>2. Latest(r) \in Deliveries /\ Latest(r)' = Latest(r)
    BY <2>1, LatestIsDelivery DEF Latest
  <2>3. ClosedInv'
    BY <2>1 DEF ClosedInv
  <2>4. ASSUME NEW q \in Unacked' PROVE handler'[Latest(q)'] \in Alive
                                     \/ (handler'[Latest(q)'] = "deferred" /\ process' # "running")
    <3>1. CASE q = r
      <4>1. handler'[Latest(q)'] = "started"
        BY <1>1, <2>1, <2>2, <3>1
      <4> QED BY <4>1 DEF Alive
    <3>2. CASE q # r
      <4>1. q \in Unacked /\ Latest(q)' = Latest(q) /\ Latest(q) # Latest(r)
        BY <1>1, <2>1, <2>4, <3>2 DEF Unacked, Latest
      <4>2. Latest(q) \in Deliveries
        BY <4>1, LatestIsDelivery DEF Unacked
      <4> QED BY <1>1, <2>1, <4>1, <4>2 DEF NothingStranded
    <3> QED BY <3>1, <3>2
  <2> QED BY <2>3, <2>4 DEF NothingStranded
<1>7. ASSUME NEW d \in Deliveries, NEW state, Becomes(d, state), UNCHANGED <<brokerVars, process>>,
             Current(d) => state \in Alive \/ (state = "deferred" /\ process # "running")
      PROVE  NothingStranded' /\ ClosedInv'
  <2>1. UNCHANGED <<broker, returns, process>>
    BY <1>7 DEF brokerVars
  <2>2. ASSUME NEW q \in Unacked' PROVE handler'[Latest(q)'] \in Alive
                                     \/ (handler'[Latest(q)'] = "deferred" /\ process' # "running")
    <3>1. q \in Unacked /\ q \in Records /\ Latest(q)' = Latest(q)
      BY <2>1, <2>2 DEF Unacked, Latest
    <3>4. Latest(q) \in Deliveries
      BY <3>1, LatestIsDelivery DEF Unacked
    <3>2. CASE Latest(q) = d
      <4>1. d[1] = q
        BY <3>2 DEF Latest
      <4>2. Current(d)
        BY <3>1, <3>2, <4>1 DEF Current, Unacked
      <4>3. handler'[Latest(q)'] = state
        BY <1>1, <1>7, <3>1, <3>2 DEF Becomes
      <4> QED BY <1>7, <2>1, <4>2, <4>3
    <3>3. CASE Latest(q) # d
      <4>1. handler'[Latest(q)'] = handler[Latest(q)]
        BY <1>1, <1>7, <3>1, <3>3, <3>4 DEF Becomes
      <4> QED BY <2>1, <3>1, <4>1 DEF NothingStranded
    <3> QED BY <3>2, <3>3
  <2> QED BY <2>1, <2>2 DEF NothingStranded, ClosedInv, Unacked
<1>8. ASSUME NEW d \in Deliveries, HandlerStep(d) PROVE NothingStranded' /\ ClosedInv'
  <2>1. CASE Dispose(d)
    <3>1. Disposition(d) \in Alive \/ (Disposition(d) = "deferred" /\ process # "running")
      BY <2>1 DEF Dispose, Disposition, Alive
    <3> QED BY <1>7, <2>1, <3>1 DEF Dispose
  <2>2. CASE SubmitWrite(d)
    BY <1>7, <2>2 DEF SubmitWrite, Alive
  <2>3. CASE Resume(d)
    <3>1. AfterFuture(d) \in Alive
      BY DEF AfterFuture, Alive
    <3> QED BY <1>7, <2>3, <3>1 DEF Resume
  <2>4. CASE BeginWriteSingle(d)
    BY <1>7, <2>4 DEF BeginWriteSingle, Alive
  <2>5. CASE WriteSingleReturns(d)
    <3>1. \E state \in {"ack", "backoff", "requeue"} : Becomes(d, state)
      BY <2>5 DEF WriteSingleReturns, WriteSingleOk, WriteSingleTransient, WriteSingleFails
    <3>2. UNCHANGED <<brokerVars, process>>
      BY <2>5 DEF WriteSingleReturns, WriteSingleOk, WriteSingleTransient, WriteSingleFails
    <3> QED BY <1>7, <3>1, <3>2 DEF Alive
  <2>6. CASE BackoffOver(d)
    BY <1>7, <2>6 DEF BackoffOver, Alive
  <2>7. CASE Settle(d)
    <3>1. Becomes(d, "done") /\ UNCHANGED process
      BY <2>7 DEF Settle
    <3>2. CASE ~Current(d) /\ UNCHANGED brokerVars
      BY <1>7, <3>1, <3>2
    <3>3. CASE Current(d)
      <4>1. d[1] \in Records /\ d = Latest(d[1])
        BY <3>3 DEF Current, Deliveries
      <4>2. Unacked' = Unacked \ {d[1]}
        <5>1. CASE \E end \in {"acked", "dead"} : broker' = [broker EXCEPT ![d[1]] = end]
          BY <1>1, <4>1, <5>1 DEF Unacked
        <5>2. CASE GiveBack({d[1]})
          BY <1>1, <4>1, <5>2, GiveBackUnacked
        <5> QED BY <2>7, <3>3, <5>1, <5>2 DEF Settle
      <4>3. \A q \in Records : q # d[1] => returns'[q] = returns[q]
        BY <2>7, <3>3 DEF Settle, GiveBack, brokerVars
      <4>4. ASSUME NEW q \in Unacked' PROVE handler'[Latest(q)'] \in Alive
                                         \/ (handler'[Latest(q)'] = "deferred" /\ process' # "running")
        <5>1. q \in Unacked /\ q \in Records /\ q # d[1]
          BY <4>2, <4>4 DEF Unacked
        <5>2. Latest(q)' = Latest(q) /\ Latest(q) # d
          BY <4>1, <4>3, <5>1 DEF Latest
        <5>3. Latest(q) \in Deliveries
          BY <5>1, LatestIsDelivery DEF Unacked
        <5>4. handler'[Latest(q)'] = handler[Latest(q)]
          BY <1>1, <3>1, <5>2, <5>3 DEF Becomes
        <5> QED BY <3>1, <5>1, <5>4 DEF NothingStranded
      <4> QED BY <3>1, <4>2, <4>4 DEF NothingStranded, ClosedInv
    <3> QED BY <2>7, <3>2, <3>3 DEF Settle
  <2> QED BY <1>8, <2>1, <2>2, <2>3, <2>4, <2>5, <2>6, <2>7 DEF HandlerStep
<1>9. ASSUME NEW d \in Deliveries, CancelHandler(d) PROVE NothingStranded' /\ ClosedInv'
  BY <1>7, <1>9 DEF CancelHandler
<1>10. CASE Shutdown \/ CancelConsumers
  <2>1. UNCHANGED <<broker, returns, handler>> /\ process' \in {"stopping", "cancelled"}
    BY <1>10 DEF Shutdown, CancelConsumers, brokerVars
  <2> QED BY <2>1 DEF NothingStranded, ClosedInv, Unacked, Latest
<1>11. CASE ConnectionLost \/ CloseTransport \/ Crash
  BY <1>4, <1>11 DEF ConnectionLost, CloseTransport, Crash
<1>12. CASE Restart
  <2>1. Unacked' = {}
    BY <1>12 DEF Restart, brokerVars, ClosedInv, Unacked
  <2> QED BY <2>1 DEF NothingStranded, ClosedInv
<1> QED BY <1>5, <1>6, <1>8, <1>9, <1>10, <1>11, <1>12 DEF DeliveryNext

(***************************************************************************)
(* No message is stranded: an unacknowledged message has a handler on its  *)
(* way to a settlement, or waits for the transport's close (run_delivery,  *)
(* and the DEFER of a stopping service).                                   *)
(***************************************************************************)
THEOREM NoMessageStranded == DeliverySpec => []NothingStranded
<1> DEFINE Inv == DeliveryInv /\ NothingStranded /\ ClosedInv
<1>1. DeliveryInit => Inv
  <2>1. DeliveryInit => NothingStranded /\ ClosedInv
    BY DEF DeliveryInit, NothingStranded, ClosedInv, Unacked
  <2> QED BY <2>1, InitDelivery
<1>2. Inv /\ [DeliveryNext]_deliveryVars => Inv'
  <2>1. Inv /\ DeliveryNext => NothingStranded' /\ ClosedInv'
    BY StepStranded
  <2>2. Inv /\ UNCHANGED deliveryVars => NothingStranded' /\ ClosedInv'
    BY DEF deliveryVars, NothingStranded, ClosedInv, Unacked, Latest
  <2> QED BY DeliveryInvStep, <2>1, <2>2
<1>3. Inv => NothingStranded
  OBVIOUS
<1> QED BY <1>1, <1>2, <1>3, PTL DEF DeliverySpec

-----------------------------------------------------------------------------
(* Every return of a sound record is charged to a fault. *)

(* The handler of d is about to give its message back because a write failed *)
Failing(d) ==
    \/ handler[d] \in {"backoff", "requeue"}
    \/ handler[d] = "waiting" /\ future[d] \in {"transient", "failed"}

(* A return that is certain to come: of the failed write, and of the shutdown under way *)
Owed(r) == IF broker[r] = "unacked" /\ Failing(Latest(r)) THEN 1 ELSE 0

OwedByShutdown == IF process \in {"stopping", "cancelled"} THEN 1 ELSE 0

ChargeInv == \A r \in Sound : returns[r] + Owed(r) + OwedByShutdown <= Faults

(* A step of the batcher that fails a sound record's delivery uses up an outage or an error *)
LEMMA BatcherCharge ==
    ASSUME BatcherInv, AnyStep
    PROVE  /\ outages' + errors' >= outages + errors
           /\ \A d \in Deliveries :
                  d[1] \notin Poison /\ future'[d] \in {"transient", "failed"} =>
                      future'[d] = future[d] \/ outages' + errors' >= outages + errors + 1
<1> DEFINE Calm == /\ outages' + errors' >= outages + errors
                   /\ \A d \in Deliveries :
                          d[1] \notin Poison /\ future'[d] \in {"transient", "failed"} => future'[d] = future[d]
           OneMore == outages' + errors' >= outages + errors + 1
<1>1. /\ future \in [Deliveries -> FutureStates] /\ outages \in Nat /\ errors \in Nat
      /\ \A t \in Deliveries : todo[t] \subseteq Deliveries
      /\ TypeInv /\ MembersInBatch
  BY DEF BatcherInv, TypeInv, BatcherTypeOK, FutureStates
<1>2. ASSUME UNCHANGED <<outages, errors>>,
             \A d \in Deliveries : future'[d] \in {"transient", "failed"} => future'[d] = future[d]
      PROVE  Calm
  BY <1>1, <1>2
<1>3. ASSUME NEW S, ResolveAll(S, Verdict), UNCHANGED <<outages, errors>> PROVE Calm
  BY <1>2, <1>3 DEF ResolveAll, Verdict
<1>4. ASSUME NEW e \in Deliveries, Fail({e}, "failed"),
             (e[1] \in Poison /\ errors' = errors) \/ errors' = errors + 1, outages' = outages
      PROVE  Calm \/ OneMore
  <2>1. CASE errors' = errors + 1
    BY <1>1, <1>4, <2>1
  <2>2. CASE e[1] \in Poison /\ errors' = errors
    BY <1>1, <1>4, <2>2 DEF Fail, ResolveAll
  <2> QED BY <1>4, <2>1, <2>2
<1>5. ASSUME outages' = outages + 1, errors' = errors PROVE OneMore
  BY <1>1, <1>5
<1>6. ASSUME FlushTimer PROVE Calm
  BY <1>2, <1>6 DEF FlushTimer, faultVars
<1>7. ASSUME NEW d \in Deliveries, Submit(d) \/ CancelWaiter(d) PROVE Calm
  BY <1>1, <1>2, <1>7 DEF Submit, CancelWaiter, faultVars
<1>8. ASSUME NEW t \in Deliveries, BeginCommit(t) PROVE Calm
  BY <1>2, <1>8 DEF BeginCommit, faultVars
<1>9. ASSUME NEW t \in Deliveries, CommitReturns(t) PROVE Calm \/ OneMore
  <2>1. CASE CommitOk(t)
    <3>1. ResolveAll(todo[t], Verdict)
      BY <1>1, <2>1, CommitAnswersMembers DEF TypeInv
    <3> QED BY <1>3, <2>1, <3>1 DEF CommitOk, faultVars
  <2>2. CASE CommitTransient(t)
    BY <1>5, <2>2 DEF CommitTransient
  <2>3. CASE CommitFails(t)
    <3>1. CASE Cardinality(todo[t]) = 1
      <4>1. PICK e : todo[t] = {e}
        BY <1>1, <3>1, FiniteTodo, FS_Singleton
      <4>2. /\ Fail({e}, "failed") /\ outages' = outages
            /\ (e[1] \in Poison /\ errors' = errors) \/ errors' = errors + 1
        BY <2>3, <3>1, <4>1 DEF CommitFails, PoisonedBatch
      <4> QED BY <1>1, <1>4, <4>1, <4>2
    <3>2. CASE Cardinality(todo[t]) # 1
      <4>1. future' = future /\ errors' \in {errors, errors + 1} /\ outages' = outages
        BY <2>3, <3>2 DEF CommitFails
      <4>2. CASE errors' = errors
        BY <1>2, <4>1, <4>2
      <4>3. CASE errors' = errors + 1
        BY <1>1, <4>1, <4>3
      <4> QED BY <4>1, <4>2, <4>3
    <3> QED BY <3>1, <3>2
  <2> QED BY <1>9, <2>1, <2>2, <2>3 DEF CommitReturns
<1>10. ASSUME NEW t \in Deliveries, NEW d \in Deliveries, ReplayReturns(t, d) PROVE Calm \/ OneMore
  <2>1. CASE ReplayOk(t, d)
    BY <1>3, <2>1 DEF ReplayOk, faultVars
  <2>2. CASE ReplayTransient(t, d)
    BY <1>5, <2>2 DEF ReplayTransient
  <2>3. CASE ReplayFails(t, d)
    BY <1>4, <2>3 DEF ReplayFails
  <2> QED BY <1>10, <2>1, <2>2, <2>3 DEF ReplayReturns
<1> HIDE DEF Calm, OneMore
<1>11. Calm \/ OneMore
  BY <1>6, <1>7, <1>8, <1>9, <1>10 DEF AnyStep, TaskStep
<1>12. OneMore => outages' + errors' >= outages + errors
  <2>1. outages' + errors' \in Nat
    <3>1. outages' \in Nat /\ errors' \in Nat
      BY <1>1, StepType DEF BatcherTypeOK
    <3>2. PICK o \in Nat, e \in Nat : o = outages' /\ e = errors'
      BY <3>1
    <3>3. o + e \in Nat
      OBVIOUS
    <3> QED BY <3>2, <3>3
  <2>2. outages \in Nat /\ errors \in Nat
    BY <1>1
  <2> QED BY <2>1, <2>2 DEF OneMore
<1> QED BY <1>11, <1>12 DEF Calm, OneMore

(***************************************************************************)
(* A sound record comes back for a failed write that an outage or an error *)
(* explains, or with every other unacknowledged one for a lost connection, *)
(* a crash or a shutdown.  The shutdown returns it once: it defers what is *)
(* still delivered, and a handler that fails meanwhile has its own charge. *)
(***************************************************************************)
LEMMA StepCharge ==
    ASSUME DeliveryInv, ChargeInv, DeliveryNext
    PROVE  ChargeInv'
<1>1. /\ broker \in [Records -> {"ready", "unacked", "acked", "dead"}]
      /\ handler \in [Deliveries -> HandlerStates]
      /\ \A r \in Records : returns[r] \in Nat
      /\ outages \in Nat /\ errors \in Nat /\ disruptions \in Nat
      /\ future \in [Deliveries -> FutureStates]
      /\ process \in {"running", "stopping", "cancelled", "closed"}
      /\ DeliveryTypeOK
  BY BrokerAssumption DEF DeliveryInv, DeliveryTypeOK, BatcherTypeOK, FutureStates
<1>2. Sound \subseteq Records
  BY DEF Sound
<1>3. \A r \in Records : Owed(r) \in {0, 1}
  BY DEF Owed
<1>4. OwedByShutdown \in {0, 1}
  BY DEF OwedByShutdown
<1>5. Faults \in Nat
  BY <1>1 DEF Faults
(* A step that leaves the queue alone can only make a failure known *)
<1>6. ASSUME UNCHANGED <<broker, returns, process, disruptions>>, outages' \in Nat, errors' \in Nat,
             outages' + errors' >= outages + errors,
             \A r \in Sound : broker[r] = "unacked" /\ Failing(Latest(r))' =>
                 Failing(Latest(r)) \/ outages' + errors' >= outages + errors + 1
      PROVE  ChargeInv'
  <2> SUFFICES ASSUME NEW r \in Sound PROVE returns'[r] + Owed(r)' + OwedByShutdown' <= Faults'
    BY DEF ChargeInv
  <2>1. returns[r] + Owed(r) + OwedByShutdown <= Faults
    BY DEF ChargeInv
  <2>2. OwedByShutdown' = OwedByShutdown /\ returns'[r] = returns[r]
    BY <1>6 DEF OwedByShutdown
  <2>3. Owed(r)' \in {0, 1} /\ (Owed(r)' = 1 => Owed(r) = 1 \/ outages' + errors' >= outages + errors + 1)
    BY <1>6 DEF Owed
  <2>4. returns[r] \in Nat /\ Owed(r) \in {0, 1}
    BY <1>1, <1>2, <1>3
  <2>5. /\ Faults' \in Nat /\ Faults' >= Faults
        /\ outages' + errors' >= outages + errors + 1 => Faults' >= Faults + 1
    <3>1. /\ outages \in Nat /\ errors \in Nat /\ disruptions \in Nat
          /\ outages' \in Nat /\ errors' \in Nat /\ disruptions' = disruptions
          /\ outages' + errors' >= outages + errors
      BY <1>1, <1>6
    <3>2. PICK o \in Nat, e \in Nat : o = outages' /\ e = errors'
      BY <3>1
    <3>3. Faults = outages + errors + disruptions /\ Faults' = o + e + disruptions
      BY <3>1, <3>2 DEF Faults
    <3>4. o + e >= outages + errors
      BY <3>1, <3>2
    <3>5. /\ o + e + disruptions \in Nat /\ o + e + disruptions >= outages + errors + disruptions
          /\ o + e >= outages + errors + 1 => o + e + disruptions >= outages + errors + disruptions + 1
      BY <3>1, <3>4
    <3> QED BY <3>2, <3>3, <3>5
  <2>6. CASE Faults' >= Faults + 1
    BY <1>4, <1>5, <2>1, <2>2, <2>3, <2>4, <2>5, <2>6
  <2>7. CASE Owed(r)' = 0 \/ Owed(r) = 1
    BY <1>4, <1>5, <2>1, <2>2, <2>3, <2>4, <2>5, <2>7
  <2> QED BY <2>3, <2>5, <2>6, <2>7
(* A disruption, or the close that a shutdown was charged for, returns whatever is unacknowledged *)
<1>7. ASSUME GiveBack(Unacked), Faults' \in Nat, Faults' + OwedByShutdown >= Faults + 1 + OwedByShutdown'
      PROVE  ChargeInv'
  <2> SUFFICES ASSUME NEW r \in Sound PROVE returns'[r] + Owed(r)' + OwedByShutdown' <= Faults'
    BY DEF ChargeInv
  <2>1. returns[r] + Owed(r) + OwedByShutdown <= Faults
    BY DEF ChargeInv
  <2>2. Owed(r)' = 0
    <3>1. Unacked' = {}
      BY <1>1, <1>7, GiveBackUnacked DEF Unacked
    <3> QED BY <1>2, <3>1 DEF Unacked, Owed
  <2>3. returns'[r] <= returns[r] + 1 /\ returns'[r] \in Nat /\ returns[r] \in Nat
    BY <1>1, <1>2, <1>7 DEF GiveBack
  <2>4. OwedByShutdown' \in {0, 1}
    BY DEF OwedByShutdown
  <2> QED BY <1>2, <1>3, <1>4, <1>5, <1>7, <2>1, <2>2, <2>3, <2>4
<1>8. outages' \in Nat /\ errors' \in Nat
  BY DeliveryInvStep DEF DeliveryInv, DeliveryTypeOK, BatcherTypeOK
(* A handler moves on; the batcher may move with it *)
<1>9. ASSUME NEW d \in Deliveries, NEW state \in HandlerStates, Becomes(d, state),
             UNCHANGED <<brokerVars, process, disruptions>>,
             outages' + errors' >= outages + errors,
             \A e \in Deliveries : e # d /\ e[1] \notin Poison /\ future'[e] \in {"transient", "failed"} =>
                 future'[e] = future[e] \/ outages' + errors' >= outages + errors + 1,
             d[1] \in Sound => \/ state \notin {"waiting", "backoff", "requeue"}
                               \/ state = "waiting" /\ future'[d] \notin {"transient", "failed"}
                               \/ Failing(d)
                               \/ outages' + errors' >= outages + errors + 1
      PROVE  ChargeInv'
  <2>1. ASSUME NEW r \in Sound, broker[r] = "unacked", Failing(Latest(r))'
        PROVE  Failing(Latest(r)) \/ outages' + errors' >= outages + errors + 1
    <3>1. Latest(r) \in Deliveries /\ Latest(r)' = Latest(r) /\ Latest(r)[1] = r
      <4>1. Latest(r) \in Deliveries
        BY <1>2, <2>1, LatestIsDelivery
      <4> QED BY <1>9, <4>1 DEF Latest, brokerVars
    <3>2. r \notin Poison
      BY DEF Sound
    <3>3. CASE Latest(r) = d
      <4>1. handler'[d] = state /\ d[1] \in Sound
        BY <1>1, <1>9, <3>1, <3>3 DEF Becomes
      <4> QED BY <1>9, <2>1, <3>1, <3>3, <4>1 DEF Failing
    <3>4. CASE Latest(r) # d
      <4>1. handler'[Latest(r)] = handler[Latest(r)]
        BY <1>1, <1>9, <3>1, <3>4 DEF Becomes
      <4> QED BY <1>9, <2>1, <3>1, <3>2, <3>4, <4>1 DEF Failing
    <3> QED BY <3>3, <3>4
  <2> QED BY <1>6, <1>8, <1>9, <2>1 DEF brokerVars
<1>10. ASSUME UNCHANGED batcherVars
       PROVE  /\ UNCHANGED <<future, outages, errors>>
              /\ outages' + errors' >= outages + errors
  BY <1>1, <1>10 DEF batcherVars, faultVars
<1>11. CASE BatcherStep
  <2>1. AnyStep /\ UNCHANGED <<broker, returns, handler, process, disruptions>>
    BY <1>11 DEF BatcherStep, AnyStep, brokerVars
  <2>2. ASSUME NEW r \in Sound, broker[r] = "unacked", Failing(Latest(r))'
        PROVE  Failing(Latest(r)) \/ outages' + errors' >= outages + errors + 1
    <3>1. Latest(r) \in Deliveries /\ Latest(r)' = Latest(r) /\ Latest(r)[1] = r
      <4>1. Latest(r) \in Deliveries
        BY <1>2, <2>2, LatestIsDelivery
      <4> QED BY <2>1, <4>1 DEF Latest
    <3>2. r \notin Poison
      BY DEF Sound
    <3> QED BY <2>1, <2>2, <3>1, <3>2, BatcherCharge DEF Failing, DeliveryInv
  <2> QED BY <1>6, <1>8, <2>1, <2>2, BatcherCharge DEF DeliveryInv
<1>12. ASSUME NEW r \in Records, Deliver(r) PROVE ChargeInv'
  <2>1. /\ broker[r] = "ready" /\ broker' = [broker EXCEPT ![r] = "unacked"]
        /\ handler' = [handler EXCEPT ![Latest(r)] = "started"]
        /\ UNCHANGED <<returns, process, disruptions, future, outages, errors>>
    BY <1>12 DEF Deliver, AtHead, batcherVars, faultVars
  <2>2. Faults' = Faults /\ OwedByShutdown' = OwedByShutdown
    BY <2>1 DEF Faults, OwedByShutdown
  <2>3. Latest(r) \in Deliveries /\ \A q \in Records : Latest(q)' = Latest(q)
    BY <2>1, LatestIsDelivery DEF Latest
  <2>4. ASSUME NEW q \in Records PROVE Owed(q)' <= Owed(q)
    <3>1. CASE q = r
      <4>1. handler'[Latest(q)'] = "started"
        BY <1>1, <2>1, <2>3, <3>1
      <4> QED BY <4>1, <1>3 DEF Owed, Failing
    <3>2. CASE q # r
      <4>1. broker'[q] = broker[q]
        BY <1>1, <2>1, <3>2
      <4>2. CASE broker[q] = "unacked"
        <5>1. Latest(q) \in Deliveries /\ Latest(q) # Latest(r)
          BY <3>2, <4>2, LatestIsDelivery DEF Latest
        <5>2. handler'[Latest(q)'] = handler[Latest(q)] /\ future'[Latest(q)'] = future[Latest(q)]
          BY <1>1, <2>1, <2>3, <5>1
        <5>3. Failing(Latest(q))' <=> Failing(Latest(q))
          BY <5>2 DEF Failing
        <5> QED BY <1>3, <4>1, <5>3 DEF Owed
      <4>3. CASE broker[q] # "unacked"
        BY <1>3, <4>1, <4>3 DEF Owed
      <4> QED BY <4>2, <4>3
    <3> QED BY <3>1, <3>2
  <2>5. ASSUME NEW q \in Sound PROVE returns'[q] + Owed(q)' + OwedByShutdown' <= Faults'
    <3>1. returns[q] + Owed(q) + OwedByShutdown <= Faults
      BY DEF ChargeInv
    <3>2. Owed(q)' \in {0, 1} /\ Owed(q)' <= Owed(q) /\ q \in Records
      BY <1>2, <2>4 DEF Owed
    <3> QED BY <1>1, <1>3, <1>4, <1>5, <2>1, <2>2, <3>1, <3>2
  <2> QED BY <2>5 DEF ChargeInv
<1>13. ASSUME NEW d \in Deliveries, HandlerStep(d) PROVE ChargeInv'
  <2>1. CASE Dispose(d)
    <3>1. /\ Disposition(d) \in HandlerStates
          /\ d[1] \in Sound => Disposition(d) \notin {"waiting", "backoff", "requeue"}
      BY <2>1 DEF Dispose, Disposition, HandlerStates, Sound
    <3> QED BY <1>9, <1>10, <2>1, <3>1 DEF Dispose
  <2>2. CASE SubmitWrite(d)
    <3>1. future'[d] = "open"
      BY <1>1, <2>2 DEF SubmitWrite, Submit
    <3>2. AnyStep
      BY <2>2 DEF SubmitWrite, AnyStep
    <3> QED BY <1>9, <2>2, <3>1, <3>2, BatcherCharge DEF SubmitWrite, HandlerStates, DeliveryInv
  <2>3. CASE Resume(d)
    <3>1. AfterFuture(d) \in HandlerStates \ {"waiting"}
      BY <2>3 DEF Resume, AfterFuture, HandlerStates
    <3>2. AfterFuture(d) \in {"backoff", "requeue"} => Failing(d)
      BY <2>3 DEF Resume, AfterFuture, Failing, Verdicts
    <3> QED BY <1>9, <1>10, <2>3, <3>1, <3>2 DEF Resume
  <2>4. CASE BeginWriteSingle(d)
    BY <1>9, <1>10, <2>4 DEF BeginWriteSingle, HandlerStates
  <2>5. CASE WriteSingleReturns(d)
    <3>1. future' = future /\ UNCHANGED <<brokerVars, process, disruptions>>
      BY <2>5 DEF WriteSingleReturns, WriteSingleOk, WriteSingleTransient, WriteSingleFails
    <3>2. CASE WriteSingleOk(d)
      <4>1. Becomes(d, "ack") /\ outages' + errors' >= outages + errors
        BY <1>1, <3>2 DEF WriteSingleOk, faultVars
      <4> QED BY <1>9, <3>1, <4>1 DEF HandlerStates
    <3>3. CASE WriteSingleTransient(d)
      <4>1. Becomes(d, "backoff") /\ outages' + errors' >= outages + errors + 1
        BY <1>1, <3>3 DEF WriteSingleTransient
      <4>2. outages' + errors' >= outages + errors
        BY <1>1, <3>3 DEF WriteSingleTransient
      <4> QED BY <1>9, <3>1, <4>1, <4>2 DEF HandlerStates
    <3>4. CASE WriteSingleFails(d)
      <4>1. Becomes(d, "requeue") /\ outages' + errors' >= outages + errors
        BY <1>1, <3>4 DEF WriteSingleFails
      <4>2. d[1] \in Sound => outages' + errors' >= outages + errors + 1
        BY <1>1, <3>4 DEF WriteSingleFails, Sound
      <4> QED BY <1>9, <3>1, <4>1, <4>2 DEF HandlerStates
    <3> QED BY <2>5, <3>2, <3>3, <3>4 DEF WriteSingleReturns
  <2>6. CASE BackoffOver(d)
    <3>1. Failing(d)
      BY <2>6 DEF BackoffOver, Failing
    <3> QED BY <1>9, <1>10, <2>6, <3>1 DEF BackoffOver, HandlerStates
  <2>7. CASE Settle(d)
    <3>1. Becomes(d, "done") /\ UNCHANGED <<batcherVars, process, disruptions>>
      BY <2>7 DEF Settle
    <3>2. UNCHANGED <<future, outages, errors>> /\ Faults' = Faults /\ OwedByShutdown' = OwedByShutdown
      BY <1>10, <3>1 DEF Faults, OwedByShutdown
    <3>3. CASE UNCHANGED brokerVars
      BY <1>9, <1>10, <3>1, <3>3 DEF HandlerStates
    <3>4. CASE Current(d) /\ ~UNCHANGED brokerVars
      <4>1. d[1] \in Records /\ d = Latest(d[1]) /\ broker[d[1]] = "unacked"
        BY <3>4 DEF Current, Deliveries
      <4>2. /\ \A q \in Records : q # d[1] => broker'[q] = broker[q] /\ returns'[q] = returns[q]
            /\ broker'[d[1]] # "unacked"
            /\ returns'[d[1]] = returns[d[1]] \/ (returns'[d[1]] = returns[d[1]] + 1 /\ Failing(d))
        <5>1. CASE \E end \in {"acked", "dead"} : broker' = [broker EXCEPT ![d[1]] = end] /\ UNCHANGED returns
          BY <1>1, <4>1, <5>1
        <5>2. CASE handler[d] = "requeue" /\ GiveBack({d[1]})
          BY <1>1, <4>1, <5>2 DEF GiveBack, Failing
        <5> QED BY <2>7, <3>4, <5>1, <5>2 DEF Settle
      <4>3. ASSUME NEW q \in Sound PROVE returns'[q] + Owed(q)' + OwedByShutdown' <= Faults'
        <5>1. returns[q] + Owed(q) + OwedByShutdown <= Faults /\ q \in Records
          BY <1>2 DEF ChargeInv
        <5>2. CASE q = d[1]
          <6>1. Owed(q)' = 0
            BY <4>2, <5>2 DEF Owed
          <6>2. Failing(d) => Owed(q) = 1
            BY <4>1, <5>2 DEF Owed
          <6> QED BY <1>1, <1>3, <1>4, <1>5, <3>2, <4>2, <5>1, <5>2, <6>1, <6>2
        <5>3. CASE q # d[1]
          <6>1. Owed(q)' = Owed(q)
            <7>1. CASE broker[q] = "unacked"
              <8>1. Latest(q) \in Deliveries /\ Latest(q)' = Latest(q) /\ Latest(q) # d
                BY <4>1, <4>2, <5>1, <5>3, <7>1, LatestIsDelivery DEF Latest
              <8>2. handler'[Latest(q)'] = handler[Latest(q)] /\ future'[Latest(q)'] = future[Latest(q)]
                BY <1>1, <3>1, <3>2, <8>1 DEF Becomes
              <8>3. Failing(Latest(q))' <=> Failing(Latest(q))
                BY <8>2 DEF Failing
              <8> QED BY <4>2, <5>1, <5>3, <8>3 DEF Owed
            <7>2. CASE broker[q] # "unacked"
              BY <4>2, <5>1, <5>3, <7>2 DEF Owed
            <7> QED BY <7>1, <7>2
          <6> QED BY <3>2, <4>2, <5>1, <5>3, <6>1
        <5> QED BY <5>2, <5>3
      <4> QED BY <4>3 DEF ChargeInv
    <3> QED BY <2>7, <3>3, <3>4 DEF Settle
  <2> QED BY <1>13, <2>1, <2>2, <2>3, <2>4, <2>5, <2>6, <2>7 DEF HandlerStep
<1>14. ASSUME NEW d \in Deliveries, CancelHandler(d) PROVE ChargeInv'
  <2>1. /\ outages' + errors' >= outages + errors
        /\ \A e \in Deliveries : e[1] \notin Poison /\ future'[e] \in {"transient", "failed"} =>
               future'[e] = future[e] \/ outages' + errors' >= outages + errors + 1
    <3>1. CASE UNCHANGED batcherVars
      BY <1>10, <3>1
    <3>2. CASE CancelWaiter(d)
      BY <3>2, BatcherCharge DEF AnyStep, DeliveryInv
    <3> QED BY <1>14, <3>1, <3>2 DEF CancelHandler
  <2>2. Becomes(d, "done") /\ UNCHANGED <<brokerVars, process, disruptions>>
    BY <1>14 DEF CancelHandler
  <2> QED BY <1>9, <2>1, <2>2 DEF HandlerStates
<1>15. CASE ConnectionLost \/ Crash
  <2>1. GiveBack(Unacked) /\ disruptions' = disruptions + 1 /\ UNCHANGED <<outages, errors>>
    BY <1>10, <1>15 DEF ConnectionLost, Crash, ForgetMemory, faultVars
  <2>2. OwedByShutdown' \in {0, OwedByShutdown}
    BY <1>15 DEF ConnectionLost, Crash, ForgetMemory, OwedByShutdown
  <2>3. Faults' = Faults + 1
    BY <1>1, <2>1 DEF Faults
  <2>4. Faults' \in Nat /\ Faults' + OwedByShutdown >= Faults + 1 + OwedByShutdown'
    <3>1. CASE OwedByShutdown' = 0
      BY <1>4, <1>5, <2>3, <3>1
    <3>2. CASE OwedByShutdown' = OwedByShutdown
      BY <1>4, <1>5, <2>3, <3>2
    <3> QED BY <2>2, <3>1, <3>2
  <2> QED BY <1>7, <2>1, <2>4
<1>16. CASE CloseTransport
  <2>1. /\ GiveBack(Unacked) /\ Faults' = Faults
        /\ OwedByShutdown = 1 /\ OwedByShutdown' = 0
    BY <1>10, <1>16 DEF CloseTransport, Faults, OwedByShutdown
  <2> QED BY <1>5, <1>7, <2>1
<1>17. CASE Shutdown \/ CancelConsumers \/ Restart
  <2>1. UNCHANGED <<broker, returns, outages, errors>>
    BY <1>10, <1>17 DEF Shutdown, CancelConsumers, Restart, ForgetMemory, brokerVars, faultVars
  <2>2. /\ Faults' \in Nat /\ OwedByShutdown' \in {0, 1}
        /\ Faults' + OwedByShutdown >= Faults + OwedByShutdown'
    BY <1>1, <1>5, <1>17, <2>1 DEF Shutdown, CancelConsumers, Restart, ForgetMemory, Faults, OwedByShutdown
  <2>3. ASSUME NEW r \in Sound PROVE Owed(r)' \in {0, Owed(r)}
    <3>1. CASE UNCHANGED <<handler, future>>
      BY <2>1, <3>1 DEF Owed, Failing, Latest
    <3>2. CASE handler' = [d \in Deliveries |-> "none"]
      <4>1. CASE broker[r] = "unacked"
        <5>1. Latest(r)' \in Deliveries
          BY <1>2, <2>1, <4>1, LatestIsDelivery DEF Latest
        <5>2. handler'[Latest(r)'] = "none"
          BY <3>2, <5>1
        <5> QED BY <5>2 DEF Owed, Failing
      <4>2. CASE broker[r] # "unacked"
        BY <2>1, <4>2 DEF Owed
      <4> QED BY <4>1, <4>2
    <3> QED BY <1>10, <1>17, <3>1, <3>2 DEF Shutdown, CancelConsumers, Restart, ForgetMemory
  <2>4. ASSUME NEW r \in Sound PROVE returns'[r] + Owed(r)' + OwedByShutdown' <= Faults'
    <3>1. returns[r] + Owed(r) + OwedByShutdown <= Faults /\ r \in Records
      BY <1>2 DEF ChargeInv
    <3>2. returns'[r] = returns[r] /\ returns[r] \in Nat /\ Owed(r) \in {0, 1}
      BY <1>1, <1>3, <2>1, <3>1
    <3>3. PICK f \in Nat, o \in {0, 1}, w \in {0, 1} :
              f = Faults' /\ o = OwedByShutdown' /\ w = Owed(r)'
      BY <2>2, <2>3, <3>2
    <3>4. f + OwedByShutdown >= Faults + o /\ w \in {0, Owed(r)}
      BY <2>2, <2>3, <3>3
    <3>5. returns[r] + w + o <= f
      BY <1>4, <1>5, <3>1, <3>2, <3>4
    <3> QED BY <3>2, <3>3, <3>5
  <2> QED BY <2>4 DEF ChargeInv
<1> QED BY <1>11, <1>12, <1>13, <1>14, <1>15, <1>16, <1>17 DEF DeliveryNext

(***************************************************************************)
(* The delivery count of a sound record never exceeds the faults that      *)
(* happened.  The invariant adds what is certain to be charged: a failed   *)
(* write whose handler has not settled yet, and the one return a shutdown  *)
(* costs, which must not add up to two for one fault.                      *)
(***************************************************************************)
THEOREM ReturnsChargedToFaults == DeliverySpec => []ReturnsAreCharged
<1> DEFINE Inv == DeliveryInv /\ ChargeInv
<1>1. DeliveryInit => Inv
  <2>1. DeliveryInit => ChargeInv
    BY DEF DeliveryInit, BatcherInit, ChargeInv, Owed, OwedByShutdown, Faults, Sound
  <2> QED BY <2>1, InitDelivery
<1>2. Inv /\ [DeliveryNext]_deliveryVars => Inv'
  <2>1. Inv /\ DeliveryNext => ChargeInv'
    BY StepCharge
  <2>2. Inv /\ UNCHANGED deliveryVars => ChargeInv'
    BY DEF deliveryVars, batcherVars, faultVars, ChargeInv, Owed, Failing, OwedByShutdown, Faults, Latest
  <2> QED BY DeliveryInvStep, <2>1, <2>2
<1>3. Inv => ReturnsAreCharged
  <2> SUFFICES ASSUME Inv, NEW r \in Sound PROVE returns[r] <= Faults
    BY DEF ReturnsAreCharged
  <2>1. returns[r] + Owed(r) + OwedByShutdown <= Faults
    BY DEF ChargeInv
  <2>2. /\ returns[r] \in Nat /\ Faults \in Nat
        /\ Owed(r) \in {0, 1} /\ OwedByShutdown \in {0, 1}
    BY BrokerAssumption DEF DeliveryInv, DeliveryTypeOK, BatcherTypeOK, Sound, Faults, Owed, OwedByShutdown
  <2> QED BY <2>1, <2>2
<1> QED BY <1>1, <1>2, <1>3, PTL DEF DeliverySpec
=============================================================================
