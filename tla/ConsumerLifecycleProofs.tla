---------------------- MODULE ConsumerLifecycleProofs -----------------------
(***************************************************************************)
(* Proofs about ConsumerLifecycle, for any list of data types, any script  *)
(* of messages, any grace delay and any budget of faults: each safety      *)
(* invariant of the lifecycle, from one inductive invariant of named       *)
(* parts.  TransportIsOwned alone needs a long grace delay.                *)
(***************************************************************************)
EXTENDS ConsumerLifecycle, FiniteSetTheorems, TLAPS

Starting == main \in {"starting", "waiting", "connecting"}

Subscribing == main \in {"consuming", "registering"}

(* The recovery between the drop of the old transport and its first subscription *)
Opening == recovery \in {"connecting", "checking", "discarding", "declaring"}

(* Whoever subscribes one type after another: main() or the recovery *)
Joining == Subscribing \/ recovery \in {"consuming", "registering"}

PlaceType ==
    /\ DOMAIN place = Types
    /\ \A t \in Types : place[t] \in [Ids(t) -> {"unpublished", "ready", "deferred", "done"} \cup Transports]

(* Who is inside close_rabbitmq_connection, by where its task is *)
ClosersInv ==
    /\ \A t \in Types : closing[t] # "no" <=> timer[t] = "closing"
    /\ closing["main"] # "no" <=> main = "closing"
    /\ closing["recovery"] # "no" <=> recovery \in {"dropping", "failing"}
    /\ \A p \in Closers : closing[p] = "no" => held[p] = none

(* Which tasks can be alive together *)
PhaseInv ==
    /\ Starting \/ Subscribing => recovery = "idle"
    /\ main = "closing" => recovery = "stopped"
    /\ main = "stopped" => recovery \in {"idle", "stopped"}
    /\ main \in {"cancelling", "closing"} => shutdown
    /\ main \notin {"consuming", "registering", "running"} => \A t \in Types : timer[t] = "none"
    /\ Opening => \A t \in Types : timer[t] \in {"none", "sleeping"}
    /\ stopping # {} => main = "cancelling"
    /\ main = "starting" => startup_retry = 0
    /\ main \in {"waiting", "connecting"} => startup_retry < MAX_STARTUP_RETRIES
    /\ exit_status # "none" => main = "stopped"

(* Which transport the handles, the pending closes and the recovery name *)
HandlesInv ==
    /\ active_channel \in {none, active_connection}
    /\ \A p \in Closers : closing[p] # "no" /\ active_connection # none => held[p] = active_connection
    /\ recovery \in {"idle", "dropping", "connecting", "failing"} => temp = none
    /\ recovery \in {"checking", "discarding", "declaring", "consuming", "registering"} => temp # none
    /\ recovery \in {"connecting", "checking", "discarding"} => active_connection = none
    /\ Starting => active_connection = none
    /\ recovery = "declaring" => active_connection = temp /\ active_channel = temp
    /\ recovery \in {"consuming", "registering"} =>
        /\ active_connection \in {none, temp}
        /\ \A q \in Closers : closing[q] # "no" => held[q] = temp

(* Which types can have a tag *)
TagsInv ==
    /\ active_connection = none => consumer_tags = {}
    /\ recovery = "declaring" => consumer_tags = {}
    /\ recovery = "registering" => DATA_TYPES[next] \notin consumer_tags
    /\ Starting => next = 1
    /\ Subscribing => consumer_tags \subseteq {DATA_TYPES[i] : i \in 1 .. next - 1}

(* What the broker still holds for this process *)
BrokerInv ==
    /\ \A t \in Types : subscribed[t] \in {none, active_connection}
    /\ \A t \in Types : rpc[t] = "sent" => active_connection # none
    /\ main \notin {"cancelling", "closing", "stopped"} =>
        \A t \in Types : rpc[t] = "sent" => ~Opening /\ (timer[t] = "cancelling" \/ recovery_requested)
    /\ \A t \in Types : timer[t] = "cancelling" /\ rpc[t] = "done" => subscribed[t] = none
    /\ \A t \in Types : closing[t] # "no" => subscribed[t] = none

(* No cancel is under way for a type that is about to be subscribed *)
JoinInv ==
    Joining /\ main \notin {"cancelling", "closing", "stopped"} /\ active_channel # none =>
        \A t \in Types \ consumer_tags : timer[t] # "cancelling" /\ rpc[t] # "sent"

(* A long grace delay outlasts the subscriptions, so nobody takes the transport away *)
LongGraceInv ==
    CONSUMER_CANCEL_DELAY # "any" =>
        /\ Joining => \A t \in Types : timer[t] \in {"none", "sleeping"}
        /\ RecoveryOwnsTransport

(* NoGhostConsumer, from the first subscription on *)
GhostInv ==
    Subscribing \/ main = "running" =>
        \A t \in consumer_tags : subscribed[t] = none =>
            \/ timer[t] = "cancelling"
            \/ \E p \in Closers : closing[p] # "no"
            \/ recovery_requested

LifecycleInv ==
    /\ TypeOK
    /\ PlaceType
    /\ ClosersInv
    /\ PhaseInv
    /\ HandlesInv
    /\ TagsInv
    /\ GaugeMatchesTags
    /\ ExitIsHonest
    /\ BrokerInv
    /\ JoinInv
    /\ LongGraceInv
    /\ GhostInv
    /\ NoLostSubscription

-----------------------------------------------------------------------------
(* What the operators the actions are built from do. *)

(* A position in DATA_TYPES names a type *)
LEMMA NextType == \A i \in DOMAIN DATA_TYPES : DATA_TYPES[i] \in Types
BY DEF Types

(* There is a type *)
LEMMA SomeType == Types # {}
<1>1. 1 \in DOMAIN DATA_TYPES
  BY TypesAssumption
<1> QED BY <1>1, NextType

(* MUSICBRAINZ_DATA_TYPES is a list: the types are finitely many *)
LEMMA TypesFinite == IsFiniteSet(Types)
<1>1. DATA_TYPES \in Seq(Types)
  BY TypesAssumption, NextType
<1>2. \A t \in Types : \E n \in 1 .. Len(DATA_TYPES) : DATA_TYPES[n] = t
  BY TypesAssumption DEF Types
<1> QED BY <1>1, <1>2 DEF IsFiniteSet

(* The size of a set of tags when one is registered or popped *)
LEMMA TagCount ==
    ASSUME NEW S \in SUBSET Types, NEW t \in Types
    PROVE  /\ Cardinality(S) \in Nat
           /\ t \notin S => Cardinality(S \cup {t}) = Cardinality(S) + 1
           /\ t \in S => Cardinality(S \ {t}) = Cardinality(S) - 1
<1>1. IsFiniteSet(S)
  BY TypesFinite, FS_Subset
<1>2. Cardinality(S) \in Nat
  BY <1>1, FS_CardinalityType
<1>3. ASSUME t \notin S PROVE Cardinality(S \cup {t}) = Cardinality(S) + 1
  BY <1>1, <1>3, FS_AddElement
<1>4. ASSUME t \in S PROVE Cardinality(S \ {t}) = Cardinality(S) - 1
  BY <1>1, <1>4, FS_RemoveElement
<1> QED BY <1>2, <1>3, <1>4

(* A message that changes its place stays among the places *)
LEMMA PutType ==
    ASSUME PlaceType, NEW t \in Types, NEW i,
           NEW w \in {"unpublished", "ready", "deferred", "done"} \cup Transports, Put(t, i, w)
    PROVE  PlaceType'
<1>1. place' = [place EXCEPT ![t] = [place[t] EXCEPT ![i] = w]]
  BY DEF Put, PlaceType
<1>2. place'[t] \in [Ids(t) -> {"unpublished", "ready", "deferred", "done"} \cup Transports]
  BY <1>1 DEF PlaceType
<1> QED BY <1>1, <1>2 DEF PlaceType

(* Dropping channels ends subscriptions and calls, and puts messages back *)
LEMMA DropFacts ==
    ASSUME TypeOK, PlaceType, NEW C, DropChannels(C)
    PROVE  /\ PlaceType'
           /\ subscribed' \in [Types -> Transports \cup {none}]
           /\ rpc' \in [Types -> {"none", "sent", "done"}]
           /\ \A t \in Types : subscribed'[t] = IF subscribed[t] \in C THEN none ELSE subscribed[t]
           /\ \A t \in Types : rpc'[t] # "sent" /\ (rpc'[t] = "done" <=> rpc[t] = "done")
<1>1. PlaceType'
  <2>1. place' = [u \in Types |-> [i \in Ids(u) |-> IF place[u][i] \in C \cup {"deferred"} THEN "ready"
                                                                                       ELSE place[u][i]]]
    BY DEF DropChannels
  <2> SUFFICES ASSUME NEW t \in Types
               PROVE  place'[t] \in [Ids(t) -> {"unpublished", "ready", "deferred", "done"} \cup Transports]
    BY <2>1 DEF PlaceType
  <2>2. \A i \in Ids(t) : place[t][i] \in {"unpublished", "ready", "deferred", "done"} \cup Transports
    BY DEF PlaceType
  <2>3. \A i \in Ids(t) : (IF place[t][i] \in C \cup {"deferred"} THEN "ready" ELSE place[t][i])
                             \in {"unpublished", "ready", "deferred", "done"} \cup Transports
    BY <2>2
  <2> QED BY <2>1, <2>3
<1> QED BY <1>1 DEF DropChannels, TypeOK

(* A task that is cancelled leaves its close; the others go on *)
LEMMA AbandonFacts ==
    ASSUME TypeOK, NEW S, AbandonCloses(S)
    PROVE  /\ closing' \in [Closers -> {"no", "channel", "connection"}]
           /\ held' \in [Closers -> Transports \cup {none}]
           /\ \A p \in Closers : p \in S => closing'[p] = "no" /\ held'[p] = none
           /\ \A p \in Closers : p \notin S => closing'[p] = closing[p] /\ held'[p] = held[p]
BY DEF AbandonCloses, TypeOK

(* A close begins on the transport the handles name *)
LEMMA StartCloseFacts ==
    ASSUME TypeOK, HandlesInv, TransportSet, NEW p \in Closers, StartClose(p)
    PROVE  /\ closing' \in [Closers -> {"no", "channel", "connection"}]
           /\ held' \in [Closers -> Transports \cup {none}]
           /\ closing'[p] # "no"
           /\ active_connection # none
           /\ held'[p] = active_connection
           /\ \A q \in Closers : q # p => closing'[q] = closing[q] /\ held'[q] = held[q]
<1>1. active_connection # none
  BY DEF HandlesInv, TransportSet
<1> QED BY <1>1 DEF HandlesInv, TypeOK, StartClose

(* A name that is not in use exists whenever the model takes one *)
LEMMA FreshName ==
    ASSUME Transports \ InUse # {}
    PROVE  Fresh \in Transports /\ Fresh \notin InUse /\ Fresh # none
BY TransportsAssumption DEF Fresh

(* _recover_consumers after the drop: every timer is gone, and every close but main()'s *)
LEMMA ReconnectFacts ==
    ASSUME TypeOK, CancelTimersAndConnect
    PROVE  /\ timer' \in [Types -> {"none", "sleeping", "cancelling", "closing"}]
           /\ \A t \in Types : timer'[t] = "none" /\ closing'[t] = "no" /\ held'[t] = none
           /\ closing' \in [Closers -> {"no", "channel", "connection"}]
           /\ held' \in [Closers -> Transports \cup {none}]
           /\ closing'["recovery"] = "no" /\ held'["recovery"] = none
           /\ closing'["main"] = closing["main"] /\ held'["main"] = held["main"]
           /\ recovery_requested' \in BOOLEAN
           /\ recovery' = "connecting"
<1>1. AbandonCloses(Types \cup {"recovery"})
  BY DEF CancelTimersAndConnect
<1> QED BY <1>1, AbandonFacts, ClosersAssumption DEF CancelTimersAndConnect, Closers, Interrupts

(* The producer publishes *)
LEMMA PublishKeeps ==
    ASSUME LifecycleInv, NEW t \in Types, Publish(t)
    PROVE  LifecycleInv'
<1> USE DEF LifecycleInv, Publish, tagVars, transportVars, alarmVars, recoveryVars, mainVars
<1>1. PICK i : Put(t, i, "ready")
  OBVIOUS
<1>2. ClosersInv' /\ PhaseInv' /\ HandlesInv' /\ TagsInv' /\ GaugeMatchesTags' /\ ExitIsHonest' /\
      BrokerInv' /\ JoinInv' /\ LongGraceInv' /\ GhostInv' /\ NoLostSubscription'
  BY DEF JoinInv, LongGraceInv, ClosersInv, PhaseInv, Starting, Subscribing, Opening, Joining,
     HandlesInv, RecoveryOwnsTransport,
     TagsInv, GaugeMatchesTags, ExitIsHonest, BrokerInv, GhostInv, NoLostSubscription
<1>3. PlaceType'
  BY PutType
<1>4. TypeOK'
  BY <1>3 DEF TypeOK, PlaceType
<1> QED BY <1>2, <1>3, <1>4

(* The broker processes a Basic.Cancel: somebody awaits it, or a recovery is requested *)
LEMMA BrokerCancelsKeeps ==
    ASSUME LifecycleInv, NEW t \in Types, BrokerCancels(t)
    PROVE  LifecycleInv'
<1> USE DEF LifecycleInv, BrokerCancels, tagVars, transportVars, alarmVars, recoveryVars, mainVars
<1>1. PlaceType' /\ ClosersInv' /\ PhaseInv' /\ HandlesInv' /\ TagsInv' /\ GaugeMatchesTags' /\
      ExitIsHonest' /\ NoLostSubscription'
  BY DEF PlaceType, ClosersInv, PhaseInv, Starting, Subscribing, Opening, Joining, HandlesInv,
     RecoveryOwnsTransport, TagsInv, GaugeMatchesTags, ExitIsHonest, NoLostSubscription
<1>2. TypeOK'
  BY DEF TypeOK, PlaceType
<1>3. BrokerInv' /\ JoinInv' /\ LongGraceInv'
  BY DEF JoinInv, LongGraceInv, RecoveryOwnsTransport, TypeOK, BrokerInv, PhaseInv, Starting,
     Subscribing, Opening, Joining
<1>4. GhostInv'
  BY DEF TypeOK, GhostInv, BrokerInv, ClosersInv, PhaseInv, Starting, Subscribing, Opening, Joining, Closers
<1> QED BY <1>1, <1>2, <1>3, <1>4

(* A handler acknowledges *)
LEMMA AcknowledgeKeeps ==
    ASSUME LifecycleInv, NEW t \in Types, NEW i \in Ids(t), Acknowledge(t, i)
    PROVE  LifecycleInv'
<1> USE DEF LifecycleInv, Acknowledge, tagVars, transportVars, recoveryVars, mainVars
<1>1. traffic' \in BOOLEAN /\ heard' \subseteq Types
  BY DEF TypeOK
<1>2. ClosersInv' /\ PhaseInv' /\ HandlesInv' /\ TagsInv' /\ GaugeMatchesTags' /\ ExitIsHonest' /\
      BrokerInv' /\ JoinInv' /\ LongGraceInv' /\ GhostInv' /\ NoLostSubscription'
  BY DEF JoinInv, LongGraceInv, ClosersInv, PhaseInv, Starting, Subscribing, Opening, Joining,
     HandlesInv, RecoveryOwnsTransport,
     TagsInv, GaugeMatchesTags, ExitIsHonest, BrokerInv, GhostInv, NoLostSubscription
<1>3. PlaceType'
  BY PutType
<1>4. TypeOK'
  BY <1>3, <1>1 DEF TypeOK, PlaceType
<1> QED BY <1>2, <1>3, <1>4

(* A record comes back *)
LEMMA RequeueKeeps ==
    ASSUME LifecycleInv, NEW t \in Types, NEW i \in Ids(t), Requeue(t, i)
    PROVE  LifecycleInv'
<1> USE DEF LifecycleInv, Requeue, tagVars, transportVars, alarmVars, recoveryVars, mainVars
<1>1. ClosersInv' /\ PhaseInv' /\ HandlesInv' /\ TagsInv' /\ GaugeMatchesTags' /\ ExitIsHonest' /\
      BrokerInv' /\ JoinInv' /\ LongGraceInv' /\ GhostInv' /\ NoLostSubscription'
  BY DEF JoinInv, LongGraceInv, ClosersInv, PhaseInv, Starting, Subscribing, Opening, Joining,
     HandlesInv, RecoveryOwnsTransport,
     TagsInv, GaugeMatchesTags, ExitIsHonest, BrokerInv, GhostInv, NoLostSubscription
<1>2. PlaceType'
  BY PutType
<1>3. TypeOK'
  BY <1>2, LifecycleBudgets, TransportsAssumption, NextType DEF TypeOK, PlaceType
<1> QED BY <1>1, <1>2, <1>3

(* The grace period is over: cancel_after_delay cancels a consumer that still has a tag *)
LEMMA TimerFiresKeeps ==
    ASSUME LifecycleInv, NEW t \in Types, TimerFires(t)
    PROVE  LifecycleInv'
<1> USE DEF LifecycleInv, TimerFires, GraceOver, tagVars, transportVars, alarmVars,
           recoveryVars, mainVars
<1>1. /\ timer' \in [Types -> {"none", "sleeping", "cancelling", "closing"}]
      /\ rpc' \in [Types -> {"none", "sent", "done"}]
  BY DEF TypeOK
<1>2. PlaceType' /\ HandlesInv' /\ TagsInv' /\ GaugeMatchesTags' /\ ExitIsHonest' /\
      NoLostSubscription'
  BY DEF PlaceType, Starting, Subscribing, Opening, Joining, HandlesInv, RecoveryOwnsTransport, TagsInv,
     GaugeMatchesTags, ExitIsHonest, NoLostSubscription
<1>3. TypeOK'
  BY DEF TypeOK, PlaceType
<1>4. ClosersInv'
  BY DEF TypeOK, ClosersInv, Closers
<1>5. BrokerInv' /\ JoinInv' /\ LongGraceInv'
  BY DEF JoinInv, LongGraceInv, TypeOK, BrokerInv, TagsInv, HandlesInv, PhaseInv, Starting, Subscribing,
     Opening, Joining,
     RecoveryOwnsTransport
<1>6. GhostInv'
  BY DEF TypeOK, GhostInv, PhaseInv, Starting, Subscribing, Opening, Joining
<1>7. PhaseInv'
  BY DEF TypeOK, PhaseInv, TagsInv, HandlesInv, Starting, Subscribing, Opening
<1> QED BY <1>2, <1>3, <1>4, <1>5, <1>6, <1>7

(* The cancel of a grace timer is confirmed, and the last one goes on to close the transport *)
LEMMA TimerCancelConfirmedKeeps ==
    ASSUME LifecycleInv, NEW t \in Types, TimerCancelConfirmed(t)
    PROVE  LifecycleInv'
<1> USE DEF LifecycleInv, TimerCancelConfirmed, PopTag, AllIdle, alarmVars, recoveryVars, mainVars
<1>1. /\ closing' \in [Closers -> {"no", "channel", "connection"}]
      /\ held' \in [Closers -> Transports \cup {none}]
      /\ \A q \in Closers : q # t => closing'[q] = closing[q] /\ held'[q] = held[q]
      /\ \/ UNCHANGED <<closing, held>> /\ timer'[t] = "none"
         \/ /\ timer'[t] = "closing" /\ closing'[t] # "no" /\ consumer_tags' = {}
            /\ active_connection # none /\ held'[t] = active_connection
  BY StartCloseFacts DEF TypeOK, Closers
<1>2. \A u \in Types : u # t => timer'[u] = timer[u]
  BY DEF TypeOK
<1>3. UNCHANGED <<main, recovery>>
  OBVIOUS
<1>4. PlaceType' /\ PhaseInv' /\ ExitIsHonest'
  BY DEF PlaceType, PhaseInv, Starting, Subscribing, Opening, Joining, ExitIsHonest
<1>5. TypeOK'
  BY <1>1, <1>2, <1>3 DEF TypeOK, PlaceType
<1>6. ClosersInv'
  <2> HIDE DEF TimerCancelConfirmed
  <2>1. \A u \in Types : closing'[u] # "no" <=> timer'[u] = "closing"
    BY <1>1, <1>2 DEF ClosersInv, Closers, TimerCancelConfirmed
  <2>2. /\ closing'["main"] # "no" <=> main' = "closing"
        /\ closing'["recovery"] # "no" <=> recovery' \in {"dropping", "failing"}
    BY <1>1, <1>3, ClosersAssumption DEF ClosersInv, Closers
  <2>3. \A q \in Closers : closing'[q] = "no" => held'[q] = none
    BY <1>1 DEF ClosersInv
  <2> QED BY <2>1, <2>2, <2>3 DEF ClosersInv
<1>7. HandlesInv'
  BY <1>1, <1>3 DEF HandlesInv, Starting, Subscribing, Opening, Joining, RecoveryOwnsTransport
<1>8. TagsInv'
  BY DEF TagsInv, PhaseInv, Starting, Subscribing, Opening, Joining
<1>9. GaugeMatchesTags'
  BY TagCount DEF TypeOK, GaugeMatchesTags
<1>10. BrokerInv' /\ JoinInv' /\ LongGraceInv'
  <2>1. BrokerInv'
    BY <1>1, <1>2 DEF TypeOK, BrokerInv, PhaseInv, Opening, Closers
  <2>2. JoinInv'
    BY <1>2 DEF TypeOK, JoinInv, Joining, Subscribing
  <2>3. LongGraceInv'
    BY DEF LongGraceInv, RecoveryOwnsTransport, Joining, Subscribing
  <2> QED BY <2>1, <2>2, <2>3
<1>11. GhostInv'
  BY DEF TypeOK, GhostInv, PhaseInv, Starting, Subscribing, Opening, Joining
<1>12. NoLostSubscription'
  BY DEF TypeOK, NoLostSubscription, BrokerInv, HandlesInv, PhaseInv, Starting, Subscribing, Opening,
     Joining,
     RecoveryOwnsTransport
<1> QED BY <1>4, <1>5, <1>6, <1>7, <1>8, <1>9, <1>10, <1>11, <1>12

(* The cancel of a grace timer fails and asks for a recovery *)
LEMMA TimerCancelFailsKeeps ==
    ASSUME LifecycleInv, NEW t \in Types, TimerCancelFails(t)
    PROVE  LifecycleInv'
<1> USE DEF LifecycleInv, TimerCancelFails, CallFails, Fail, RequestRecovery, tagVars, transportVars,
           alarmVars, recoveryVars, mainVars
<1>1. PlaceType' /\ ClosersInv' /\ PhaseInv' /\ HandlesInv' /\ TagsInv' /\ GaugeMatchesTags' /\
      ExitIsHonest' /\ BrokerInv' /\ JoinInv' /\ LongGraceInv' /\ GhostInv' /\ NoLostSubscription'
  BY DEF JoinInv, LongGraceInv, PlaceType, ClosersInv, PhaseInv, Starting, Subscribing, Opening, Joining,
     HandlesInv,
     RecoveryOwnsTransport, TagsInv, GaugeMatchesTags, ExitIsHonest, BrokerInv, GhostInv, NoLostSubscription
<1>2. TypeOK'
  BY LifecycleBudgets, TransportsAssumption, NextType DEF TypeOK, PlaceType
<1> QED BY <1>1, <1>2

(* The recovery counts the ready messages, and adopts its transport if there are any *)
LEMMA CheckQueuesKeeps ==
    ASSUME LifecycleInv, CheckQueues
    PROVE  LifecycleInv'
<1> USE DEF LifecycleInv, CheckQueues, tagVars, mainVars, brokerVars
<1>1. backlog' \subseteq Types /\ recovery' \in {"discarding", "declaring"}
  OBVIOUS
<1>2. active_connection' \in Transports \cup {none} /\ active_channel' \in Transports \cup {none}
  BY DEF TypeOK
<1>3. watching' \in BOOLEAN /\ have_queues' \in BOOLEAN
  BY DEF TypeOK
<1>4. PlaceType' /\ ClosersInv' /\ PhaseInv' /\ GaugeMatchesTags' /\ ExitIsHonest' /\ GhostInv'
  BY DEF PlaceType, ClosersInv, PhaseInv, Starting, Subscribing, Opening, Joining, GaugeMatchesTags,
     ExitIsHonest,
     GhostInv
<1>5. TypeOK'
  BY <1>2, <1>3 DEF TypeOK, PlaceType
<1>6. HandlesInv'
  BY NextType DEF TypeOK, HandlesInv, ClosersInv, PhaseInv, RecoveryOwnsTransport, Starting, Subscribing,
     Opening, Joining, Closers
<1>7. TagsInv'
  BY DEF TypeOK, TagsInv, HandlesInv, PhaseInv, Starting, Subscribing, Opening, Joining,
     RecoveryOwnsTransport
<1>8. BrokerInv' /\ JoinInv' /\ LongGraceInv'
  BY DEF JoinInv, LongGraceInv, TypeOK, BrokerInv, TagsInv, HandlesInv, PhaseInv, Starting, Subscribing,
     Opening, Joining,
     RecoveryOwnsTransport
<1>9. NoLostSubscription'
  BY DEF TypeOK, NoLostSubscription, BrokerInv, HandlesInv, PhaseInv, Starting, Subscribing, Opening,
     Joining,
     RecoveryOwnsTransport
<1> QED BY <1>4, <1>5, <1>6, <1>7, <1>8, <1>9

(* The recovery gives its connection up *)
LEMMA DiscardKeeps ==
    ASSUME LifecycleInv, Discard
    PROVE  LifecycleInv'
<1> USE DEF LifecycleInv, Discard, Rest, tagVars, transportVars, alarmVars, mainVars, brokerVars
<1>1. PlaceType' /\ ClosersInv' /\ PhaseInv' /\ HandlesInv' /\ TagsInv' /\ GaugeMatchesTags' /\
      ExitIsHonest' /\ BrokerInv' /\ JoinInv' /\ LongGraceInv' /\ GhostInv' /\ NoLostSubscription'
  BY DEF JoinInv, LongGraceInv, PlaceType, ClosersInv, PhaseInv, Starting, Subscribing, Opening, Joining,
     HandlesInv,
     RecoveryOwnsTransport, TagsInv, GaugeMatchesTags, ExitIsHonest, BrokerInv, GhostInv, NoLostSubscription
<1>2. TypeOK'
  BY DEF TypeOK, PlaceType
<1> QED BY <1>1, <1>2

(* The recovery declares the queues *)
LEMMA DeclareTopologyKeeps ==
    ASSUME LifecycleInv, DeclareTopology
    PROVE  LifecycleInv'
<1> USE DEF LifecycleInv, DeclareTopology, tagVars, transportVars, alarmVars, mainVars, brokerVars
<1>1. PlaceType' /\ ClosersInv' /\ PhaseInv' /\ HandlesInv' /\ GaugeMatchesTags' /\ ExitIsHonest' /\
      GhostInv'
  BY DEF PlaceType, ClosersInv, PhaseInv, Starting, Subscribing, Opening, Joining, HandlesInv,
     RecoveryOwnsTransport, GaugeMatchesTags, ExitIsHonest, GhostInv
<1>2. TypeOK'
  BY TypesAssumption, TransportsAssumption, ClosersAssumption, LifecycleBudgets, NextType DEF TypeOK,
     PlaceType, PhaseInv
<1>3. TagsInv'
  BY DEF TagsInv, PhaseInv, Starting, Subscribing, Opening, Joining
<1>4. BrokerInv' /\ JoinInv' /\ LongGraceInv'
  BY DEF JoinInv, LongGraceInv, RecoveryOwnsTransport, BrokerInv, PhaseInv, Starting, Subscribing,
     Opening, Joining
<1>5. NoLostSubscription'
  BY DEF NoLostSubscription, PhaseInv, Starting, Subscribing, Opening, Joining
<1> QED BY <1>1, <1>2, <1>3, <1>4, <1>5

(* The recovery subscribes a type that has no tag *)
LEMMA ConsumeKeeps ==
    ASSUME LifecycleInv, Consume
    PROVE  LifecycleInv'
<1> USE DEF LifecycleInv, Consume, Open, Advance, Rest, tagVars, transportVars, alarmVars, mainVars
<1>1. PlaceType' /\ ClosersInv' /\ PhaseInv' /\ HandlesInv' /\ GaugeMatchesTags' /\ ExitIsHonest'
  BY DEF PlaceType, ClosersInv, PhaseInv, Starting, Subscribing, Opening, Joining, HandlesInv,
     RecoveryOwnsTransport, GaugeMatchesTags, ExitIsHonest
<1>2. TypeOK'
  BY DEF TypeOK, PlaceType
<1>3. TagsInv'
  BY DEF TagsInv, PhaseInv, Starting, Subscribing, Opening, Joining
<1>4. BrokerInv' /\ JoinInv' /\ LongGraceInv'
  <2>1. /\ recovery = "consuming" /\ recovery' \notin {"connecting", "checking", "discarding", "declaring"}
        /\ UNCHANGED <<consumer_tags, timer, rpc, closing, held, active_connection, active_channel, main,
                       recovery_requested>>
    OBVIOUS
  <2>2. BrokerInv'
    <3>1. CASE subscribed' = subscribed
      BY <2>1, <3>1 DEF BrokerInv, Opening
    <3>2. CASE subscribed' # subscribed
      <4> DEFINE t == DATA_TYPES[next]
      <4>1. /\ t \notin consumer_tags /\ subscribed' = [subscribed EXCEPT ![t] = temp]
            /\ active_channel = temp /\ \A q \in Closers : held[q] # temp
        BY <3>2
      <4>2. temp # none /\ active_connection = temp
        BY <2>1, <4>1 DEF HandlesInv
      <4>3. t \in Types /\ closing[t] = "no"
        BY <2>1, <4>1, NextType DEF TypeOK, HandlesInv, Closers
      <4>4. timer[t] # "cancelling"
        BY <2>1, <4>1, <4>2, <4>3 DEF JoinInv, Joining, PhaseInv
      <4> QED BY <2>1, <4>1, <4>2, <4>3, <4>4 DEF BrokerInv, Opening, TypeOK
    <3> QED BY <3>1, <3>2
  <2>3. JoinInv'
    BY <2>1 DEF JoinInv, Joining, Subscribing
  <2>4. LongGraceInv'
    BY <2>1 DEF LongGraceInv, RecoveryOwnsTransport, Joining, Subscribing
  <2> QED BY <2>2, <2>3, <2>4
<1>5. GhostInv'
  BY DEF TypeOK, GhostInv, PhaseInv, Starting, Subscribing, Opening, Joining
<1>6. NoLostSubscription'
  BY DEF TypeOK, NoLostSubscription, BrokerInv, HandlesInv, PhaseInv, Starting, Subscribing, Opening,
     Joining,
     RecoveryOwnsTransport
<1> QED BY <1>1, <1>2, <1>3, <1>4, <1>5, <1>6

(* The recovery registers the tag of the type it subscribed *)
LEMMA RegisterKeeps ==
    ASSUME LifecycleInv, Register
    PROVE  LifecycleInv'
<1> USE DEF LifecycleInv, Register, Advance, Rest, transportVars, mainVars, brokerVars
<1>1. PlaceType' /\ ClosersInv' /\ PhaseInv' /\ HandlesInv' /\ NoLostSubscription'
  BY DEF PlaceType, ClosersInv, PhaseInv, Starting, Subscribing, Opening, Joining, HandlesInv,
     RecoveryOwnsTransport, NoLostSubscription
<1>2. TypeOK'
  BY NextType DEF TypeOK, PlaceType
<1>3. TagsInv'
  BY ClosersAssumption, LifecycleBudgets, NextType DEF TypeOK, TagsInv, BrokerInv, HandlesInv,
     ClosersInv, PhaseInv,
     Starting, Subscribing, Opening, Joining, RecoveryOwnsTransport, Closers
<1>4. GaugeMatchesTags'
  BY TagCount, NextType DEF TypeOK, TagsInv, GaugeMatchesTags
<1>5. ExitIsHonest'
  BY DEF ExitIsHonest, PhaseInv, Starting, Subscribing, Opening, Joining
<1>6. BrokerInv' /\ JoinInv' /\ LongGraceInv'
  BY DEF JoinInv, LongGraceInv, RecoveryOwnsTransport, BrokerInv, PhaseInv, Starting, Subscribing,
     Opening, Joining
<1>7. GhostInv'
  BY DEF TypeOK, GhostInv, BrokerInv, ClosersInv, PhaseInv, Starting, Subscribing, Opening, Joining, Closers
<1> QED BY <1>1, <1>2, <1>3, <1>4, <1>5, <1>6, <1>7

(* The recovery fails with its transport adopted *)
LEMMA RecoveryFailsKeeps ==
    ASSUME LifecycleInv, RecoveryFails
    PROVE  LifecycleInv'
<1> USE DEF LifecycleInv, RecoveryFails, Fail, tagVars, alarmVars, mainVars, brokerVars
<1>1. /\ closing' \in [Closers -> {"no", "channel", "connection"}]
      /\ held' \in [Closers -> Transports \cup {none}]
  BY DEF TypeOK
<1>2. failures' \in 0 .. MaxFailures
  BY LifecycleBudgets DEF TypeOK
<1>3. next' \in DOMAIN DATA_TYPES
  BY TypesAssumption
<1>4. PlaceType' /\ PhaseInv' /\ GaugeMatchesTags' /\ ExitIsHonest' /\ GhostInv'
  BY DEF PlaceType, PhaseInv, Starting, Subscribing, Opening, Joining, GaugeMatchesTags, ExitIsHonest,
     GhostInv
<1>5. TypeOK'
  BY <1>2, <1>3 DEF TypeOK, PlaceType
<1>6. ClosersInv'
  BY ClosersAssumption DEF TypeOK, ClosersInv, Closers
<1>7. HandlesInv'
  BY NextType DEF TypeOK, HandlesInv, ClosersInv, PhaseInv, RecoveryOwnsTransport, Starting, Subscribing,
     Opening, Joining, Closers
<1>8. TagsInv'
  BY ClosersAssumption, LifecycleBudgets, NextType DEF TypeOK, TagsInv, HandlesInv, ClosersInv, PhaseInv,
     Starting, Subscribing, Opening, Joining, RecoveryOwnsTransport, Closers
<1>9. BrokerInv' /\ JoinInv' /\ LongGraceInv'
  <2>1. \A t \in Types : closing'[t] = closing[t]
    BY ClosersAssumption DEF TypeOK, Closers
  <2>2. active_connection \in {none, temp} /\ temp # none
    BY DEF HandlesInv
  <2>3. BrokerInv'
    BY <2>1, <2>2 DEF BrokerInv, Opening
  <2>4. JoinInv' /\ LongGraceInv'
    BY DEF JoinInv, LongGraceInv, RecoveryOwnsTransport, PhaseInv, Joining, Starting, Subscribing
  <2> QED BY <2>3, <2>4
<1>10. NoLostSubscription'
  BY DEF TypeOK, NoLostSubscription, BrokerInv, HandlesInv, PhaseInv, Starting, Subscribing, Opening,
     Joining,
     RecoveryOwnsTransport
<1> QED BY <1>4, <1>5, <1>6, <1>7, <1>8, <1>9, <1>10

(* main() checks its configuration and Neo4j *)
LEMMA InitializeKeeps ==
    ASSUME LifecycleInv, Initialize
    PROVE  LifecycleInv'
<1> USE DEF LifecycleInv, Initialize, Give, Exit, tagVars, recoveryVars, brokerVars
<1>1. PlaceType' /\ ClosersInv' /\ HandlesInv' /\ TagsInv' /\ GaugeMatchesTags' /\ BrokerInv' /\
      JoinInv' /\ LongGraceInv' /\ GhostInv'
      /\ NoLostSubscription'
  BY DEF JoinInv, LongGraceInv, PlaceType, ClosersInv, HandlesInv, Starting, Subscribing, Opening,
     Joining, RecoveryOwnsTransport,
     TagsInv, GaugeMatchesTags, BrokerInv, GhostInv, NoLostSubscription
<1>2. TypeOK'
  BY DEF TypeOK, PlaceType
<1>3. PhaseInv'
  BY ClosersAssumption, LifecycleBudgets, NextType DEF TypeOK, PhaseInv, ClosersInv, Starting, Subscribing,
     Opening, Joining, Closers
<1>4. ExitIsHonest'
  BY SomeType DEF ExitIsHonest, TagsInv, HandlesInv, PhaseInv, Starting, Subscribing, Opening, Joining
<1> QED BY <1>1, <1>2, <1>3, <1>4

(* The head of main()'s retry loop *)
LEMMA TryToConnectKeeps ==
    ASSUME LifecycleInv, TryToConnect
    PROVE  LifecycleInv'
<1> USE DEF LifecycleInv, TryToConnect, Give, Exit, tagVars, recoveryVars, brokerVars
<1>1. PlaceType' /\ ClosersInv' /\ PhaseInv' /\ HandlesInv' /\ TagsInv' /\ GaugeMatchesTags' /\
      ExitIsHonest' /\ BrokerInv' /\ JoinInv' /\ LongGraceInv' /\ GhostInv' /\ NoLostSubscription'
  BY DEF JoinInv, LongGraceInv, PlaceType, ClosersInv, PhaseInv, Starting, Subscribing, Opening, Joining,
     HandlesInv,
     RecoveryOwnsTransport, TagsInv, GaugeMatchesTags, ExitIsHonest, BrokerInv, GhostInv, NoLostSubscription
<1>2. TypeOK'
  BY DEF TypeOK, PlaceType
<1> QED BY <1>1, <1>2

(* main() subscribes the next type *)
LEMMA StartupConsumesKeeps ==
    ASSUME LifecycleInv, StartupConsumes
    PROVE  LifecycleInv'
<1> USE DEF LifecycleInv, StartupConsumes, Open, tagVars, transportVars, alarmVars, recoveryVars
<1>1. PlaceType' /\ ClosersInv' /\ PhaseInv' /\ HandlesInv' /\ TagsInv' /\ GaugeMatchesTags' /\
      ExitIsHonest' /\ NoLostSubscription'
  BY DEF PlaceType, ClosersInv, PhaseInv, Starting, Subscribing, Opening, Joining, HandlesInv,
     RecoveryOwnsTransport, TagsInv, GaugeMatchesTags, ExitIsHonest, NoLostSubscription
<1>2. TypeOK'
  BY NextType DEF TypeOK, PlaceType
<1>3. BrokerInv' /\ JoinInv' /\ LongGraceInv'
  <2> DEFINE t == DATA_TYPES[next]
  <2>1. /\ t \in Types /\ t \notin consumer_tags
    BY NextType, TypesAssumption DEF TypeOK, TagsInv, Subscribing
  <2>2. active_channel = active_connection /\ active_connection # none /\ closing[t] = "no"
    BY <2>1 DEF HandlesInv, Closers
  <2>3. timer[t] # "cancelling"
    BY <2>1 DEF JoinInv, Joining, Subscribing
  <2>4. BrokerInv'
    BY <2>1, <2>2, <2>3 DEF TypeOK, BrokerInv, Opening
  <2>5. JoinInv' /\ LongGraceInv'
    BY DEF JoinInv, LongGraceInv, RecoveryOwnsTransport, Joining, Subscribing
  <2> QED BY <2>4, <2>5
<1>4. GhostInv'
  BY DEF TypeOK, GhostInv, BrokerInv, ClosersInv, PhaseInv, Starting, Subscribing, Opening, Joining, Closers
<1> QED BY <1>1, <1>2, <1>3, <1>4

(* main() registers the tag of the type it subscribed *)
LEMMA StartupRegistersKeeps ==
    ASSUME LifecycleInv, StartupRegisters
    PROVE  LifecycleInv'
<1> USE DEF LifecycleInv, StartupRegisters, transportVars, alarmVars, brokerVars
<1>1. DATA_TYPES[next] \in Types /\ DATA_TYPES[next] \notin consumer_tags
  BY NextType, TypesAssumption DEF TypeOK, TagsInv, Subscribing
<1>2. next < Len(DATA_TYPES) => consumer_tags' \subseteq {DATA_TYPES[i] : i \in 1 .. next' - 1}
  BY DEF TagsInv, Subscribing, TypeOK
<1>3. PlaceType' /\ ClosersInv' /\ PhaseInv' /\ HandlesInv' /\ NoLostSubscription'
  BY DEF PlaceType, ClosersInv, PhaseInv, Starting, Subscribing, Opening, Joining, HandlesInv,
     RecoveryOwnsTransport, NoLostSubscription
<1>4. TypeOK'
  BY <1>1, <1>2 DEF TypeOK, PlaceType
<1>5. TagsInv'
  BY <1>1, <1>2, ClosersAssumption, LifecycleBudgets, NextType DEF TypeOK, TagsInv, BrokerInv,
     HandlesInv, ClosersInv, PhaseInv,
     Starting, Subscribing, Opening, Joining, RecoveryOwnsTransport, Closers
<1>6. GaugeMatchesTags'
  BY <1>1, TagCount DEF TypeOK, GaugeMatchesTags
<1>7. ExitIsHonest'
  BY DEF ExitIsHonest, PhaseInv, Starting, Subscribing, Opening, Joining
<1>8. BrokerInv' /\ JoinInv' /\ LongGraceInv'
  BY DEF JoinInv, LongGraceInv, RecoveryOwnsTransport, BrokerInv, PhaseInv, Starting, Subscribing,
     Opening, Joining
<1>9. GhostInv'
  BY DEF TypeOK, GhostInv, BrokerInv, ClosersInv, PhaseInv, Starting, Subscribing, Opening, Joining, Closers
<1> QED BY <1>3, <1>4, <1>5, <1>6, <1>7, <1>8, <1>9

(* A broker call of the startup raises *)
LEMMA StartupFailsKeeps ==
    ASSUME LifecycleInv, StartupFails
    PROVE  LifecycleInv'
<1> USE DEF LifecycleInv, StartupFails, Exit, tagVars, transportVars, alarmVars, recoveryVars
<1>1. DATA_TYPES[next] \in Types /\ DATA_TYPES[next] \notin consumer_tags
  BY NextType, TypesAssumption DEF TypeOK, TagsInv, Subscribing
<1>2. /\ subscribed' \in [Types -> Transports \cup {none}]
      /\ rpc' \in [Types -> {"none", "sent", "done"}]
      /\ \A t \in Types : rpc'[t] # "sent" /\ subscribed'[t] = none
  BY DropFacts DEF BrokerInv, TypeOK
<1>9. /\ closing' \in [Closers -> {"no", "channel", "connection"}]
      /\ held' \in [Closers -> Transports \cup {none}]
      /\ \A q \in Closers : closing'[q] = "no" /\ held'[q] = none
  <2>1. \A q \in Closers : q \notin Types => closing[q] = "no" /\ held[q] = none
    BY DEF ClosersInv, PhaseInv, Closers, Subscribing
  <2> QED BY <2>1, AbandonFacts
<1>3. PhaseInv' /\ HandlesInv' /\ TagsInv' /\ GaugeMatchesTags' /\ GhostInv' /\ NoLostSubscription'
  BY <1>9 DEF PhaseInv, Starting, Subscribing, Opening, Joining, HandlesInv, RecoveryOwnsTransport, TagsInv,
     GaugeMatchesTags, GhostInv, NoLostSubscription
<1>4. PlaceType'
  BY DropFacts
<1>5. TypeOK'
  BY <1>4, <1>2, <1>9 DEF TypeOK, PlaceType
<1>6. ClosersInv'
  BY <1>9, ClosersAssumption DEF TypeOK, ClosersInv, PhaseInv, Closers, Starting,
     Subscribing, Opening, Joining
<1>7. ExitIsHonest'
  BY <1>1 DEF ExitIsHonest
<1>8. BrokerInv' /\ JoinInv' /\ LongGraceInv'
  BY <1>2, <1>9 DEF PhaseInv, Closers, JoinInv, LongGraceInv, RecoveryOwnsTransport, BrokerInv, Starting,
     Subscribing, Opening, Joining
<1> QED BY <1>3, <1>4, <1>5, <1>6, <1>7, <1>8

(* A signal arrives *)
LEMMA SignalKeeps ==
    ASSUME LifecycleInv, Signal
    PROVE  LifecycleInv'
<1> USE DEF LifecycleInv, Signal, tagVars, transportVars, alarmVars, recoveryVars, brokerVars
<1>1. PlaceType' /\ ClosersInv' /\ PhaseInv' /\ HandlesInv' /\ TagsInv' /\ GaugeMatchesTags' /\
      ExitIsHonest' /\ BrokerInv' /\ JoinInv' /\ LongGraceInv' /\ GhostInv' /\ NoLostSubscription'
  BY DEF JoinInv, LongGraceInv, PlaceType, ClosersInv, PhaseInv, Starting, Subscribing, Opening, Joining,
     HandlesInv,
     RecoveryOwnsTransport, TagsInv, GaugeMatchesTags, ExitIsHonest, BrokerInv, GhostInv, NoLostSubscription
<1>2. TypeOK'
  BY DEF TypeOK, PlaceType
<1> QED BY <1>1, <1>2

(* cancel_all_consumers stops the timers and cancels every registered consumer *)
LEMMA CancelAllConsumersKeeps ==
    ASSUME LifecycleInv, CancelAllConsumers
    PROVE  LifecycleInv'
<1> USE DEF LifecycleInv, CancelAllConsumers, Interrupts, tagVars, alarmVars, recoveryVars
<1>1. /\ closing' \in [Closers -> {"no", "channel", "connection"}]
      /\ held' \in [Closers -> Transports \cup {none}]
      /\ \A t \in Types : closing'[t] = "no" /\ held'[t] = none
      /\ \A p \in Closers \ Types : closing'[p] = closing[p] /\ held'[p] = held[p]
  BY AbandonFacts DEF Closers
<1>2. rpc' \in [Types -> {"none", "sent", "done"}]
  BY DEF TypeOK
<1>3. PlaceType' /\ PhaseInv' /\ GaugeMatchesTags' /\ ExitIsHonest' /\ GhostInv' /\ NoLostSubscription'
  BY DEF PlaceType, PhaseInv, Starting, Subscribing, Opening, Joining, GaugeMatchesTags, ExitIsHonest,
     GhostInv,
     NoLostSubscription
<1>4. TypeOK'
  <2>1. /\ main' = "cancelling" /\ timer' = [t \in Types |-> "none"] /\ recovery_requested' \in BOOLEAN
        /\ stopping' \in {{}, consumer_tags} /\ PlaceType'
        /\ UNCHANGED <<consumer_tags, gauge, completed_files, have_queues, active_connection, active_channel,
                       watching, heard, traffic, recovery, temp, next, backlog, startup_retry, exit_status,
                       shutdown, subscribed, failures, requeues>>
    BY DEF TypeOK, PlaceType
  <2>2. TypeOK
    OBVIOUS
  <2> QED BY ONLY <1>1, <1>2, <2>1, <2>2 DEF TypeOK, PlaceType
<1>5. ClosersInv'
  BY ClosersAssumption, <1>1, <1>2 DEF TypeOK, ClosersInv, Closers
<1>6. HandlesInv'
  BY <1>1 DEF HandlesInv, Starting, Subscribing, Opening, Joining, RecoveryOwnsTransport
<1>7. TagsInv'
  BY <1>1 DEF TagsInv, Starting, Subscribing, Opening, Joining
<1>8. BrokerInv' /\ JoinInv' /\ LongGraceInv'
  <2>1. BrokerInv'
    BY <1>1 DEF TypeOK, BrokerInv, TagsInv
  <2>2. JoinInv' /\ LongGraceInv'
    BY DEF JoinInv, LongGraceInv, RecoveryOwnsTransport, Joining, Subscribing
  <2> QED BY <2>1, <2>2
<1> QED BY <1>3, <1>4, <1>5, <1>6, <1>7, <1>8

(* One cancel of the shutdown ends *)
LEMMA MainCancelReturnsKeeps ==
    ASSUME LifecycleInv, NEW t \in Types, MainCancelReturns(t)
    PROVE  LifecycleInv'
<1> USE DEF LifecycleInv, MainCancelReturns, PopTag, MainCancelFails, CallFails, Fail, tagVars,
           transportVars, alarmVars, recoveryVars
<1>1. consumer_tags' \subseteq Types /\ gauge' \in Int
  BY DEF TypeOK
<1>2. failures' \in 0 .. MaxFailures
  BY LifecycleBudgets DEF TypeOK
<1>3. recovery_requested' \in BOOLEAN
  BY DEF TypeOK
<1>4. rpc' \in [Types -> {"none", "sent", "done"}]
  BY DEF TypeOK
<1>5. PlaceType' /\ ClosersInv' /\ PhaseInv' /\ HandlesInv' /\ ExitIsHonest' /\ BrokerInv' /\
      JoinInv' /\ LongGraceInv' /\ GhostInv'
  BY DEF JoinInv, LongGraceInv, PlaceType, ClosersInv, PhaseInv, Starting, Subscribing, Opening, Joining,
     HandlesInv,
     RecoveryOwnsTransport, ExitIsHonest, BrokerInv, GhostInv
<1>6. TypeOK'
  BY <1>2, <1>3, <1>4 DEF TypeOK, PlaceType
<1>7. TagsInv'
  BY DEF TagsInv, PhaseInv, Starting, Subscribing, Opening, Joining
<1>8. GaugeMatchesTags'
  BY TagCount DEF TypeOK, GaugeMatchesTags
<1>9. NoLostSubscription'
  BY DEF NoLostSubscription, PhaseInv, Starting, Subscribing, Opening, Joining
<1> QED BY <1>5, <1>6, <1>7, <1>8, <1>9

(* Up to the signal a delivery keeps, arms or invalidates the timer of its type *)
LEMMA SetTimerFacts ==
    ASSUME TypeOK, NEW t \in Types, NEW s \in {"none", "sleeping"}, SetTimer(t, s)
    PROVE  /\ timer' \in [Types -> {"none", "sleeping", "cancelling", "closing"}]
           /\ timer'[t] = s
           /\ \A u \in Types : u # t => timer'[u] = timer[u]
           /\ closing' \in [Closers -> {"no", "channel", "connection"}]
           /\ held' \in [Closers -> Transports \cup {none}]
           /\ closing'[t] = "no" /\ held'[t] = none
           /\ \A p \in Closers : p # t => closing'[p] = closing[p] /\ held'[p] = held[p]
           /\ recovery_requested' = (recovery_requested \/ timer[t] = "cancelling")
           /\ recovery_requested' \in BOOLEAN
           /\ UNCHANGED <<active_connection, active_channel>>
<1>1. AbandonCloses({t})
  BY DEF SetTimer
<1> QED BY <1>1, AbandonFacts DEF SetTimer, Interrupts, Closers, TypeOK

(* The message handler *)
LEMMA DeliverKeeps ==
    ASSUME LifecycleInv, NEW t \in Types, Deliver(t)
    PROVE  LifecycleInv'
<1> USE DEF LifecycleInv, tagVars, alarmVars, recoveryVars, mainVars
<1>1. UNCHANGED <<consumer_tags, gauge, have_queues, watching, heard, traffic, recovery, temp, next, backlog,
                  main, startup_retry, exit_status, stopping, shutdown, subscribed, rpc, failures,
                  requeues>>
  BY DEF Deliver
<1>2. PICK i : Put(t, i, "deferred") \/ Put(t, i, subscribed[t])
  BY DEF Deliver
<1>3. PlaceType'
  BY <1>2, PutType DEF Deliver, TypeOK
<1>4. subscribed[t] # none /\ active_connection # none
  BY DEF Deliver, BrokerInv
<1>5. CASE /\ completed_files' \subseteq Types
           /\ UNCHANGED <<timer, transportVars, recovery_requested>>
  <2> USE <1>1, <1>5 DEF transportVars
  <2>1. TypeOK' /\ ClosersInv' /\ PhaseInv'
    BY <1>3 DEF TypeOK, PlaceType, ClosersInv, PhaseInv, Starting, Subscribing, Opening, Joining
  <2>2. HandlesInv' /\ TagsInv' /\ GaugeMatchesTags' /\ ExitIsHonest'
    BY DEF HandlesInv, RecoveryOwnsTransport, TagsInv, GaugeMatchesTags, ExitIsHonest,
           Starting, Subscribing, Opening, Joining
  <2>3. BrokerInv' /\ JoinInv' /\ LongGraceInv' /\ GhostInv' /\ NoLostSubscription'
    BY DEF JoinInv, LongGraceInv, RecoveryOwnsTransport, BrokerInv, GhostInv, NoLostSubscription,
       Starting, Subscribing, Opening, Joining
  <2> QED BY <1>3, <2>1, <2>2, <2>3
<1>6. CASE /\ ~shutdown
           /\ completed_files' \subseteq Types
           /\ \E s \in {"none", "sleeping"} : SetTimer(t, s)
  <2> USE <1>1
  <2>1. PICK s \in {"none", "sleeping"} : SetTimer(t, s)
    BY <1>6
  <2>2. main \in {"consuming", "registering", "running"}
    BY <1>4, <1>6 DEF Deliver, TypeOK, PhaseInv, HandlesInv, Starting
  <2>3. TypeOK'
    BY <1>3, <1>6, <2>1, SetTimerFacts DEF TypeOK, PlaceType
  <2>4. ClosersInv'
    BY <2>1, SetTimerFacts, ClosersAssumption DEF ClosersInv, Closers
  <2>5. PhaseInv'
    BY <2>1, <2>2, SetTimerFacts DEF PhaseInv, Starting, Subscribing, Opening, Joining
  <2>6. HandlesInv'
    BY <2>1, SetTimerFacts DEF HandlesInv, RecoveryOwnsTransport, Starting, Subscribing, Opening, Joining
  <2>7. TagsInv' /\ GaugeMatchesTags' /\ ExitIsHonest'
    BY <2>1, SetTimerFacts DEF TagsInv, GaugeMatchesTags, ExitIsHonest, Starting, Subscribing, Closers
  <2>8. BrokerInv' /\ JoinInv' /\ LongGraceInv'
    <3>1. BrokerInv'
      BY <2>1, SetTimerFacts DEF BrokerInv, Opening, Closers
    <3>2. JoinInv'
      BY <2>1, SetTimerFacts DEF JoinInv, Joining, Subscribing
    <3>3. LongGraceInv'
      BY <2>1, SetTimerFacts DEF LongGraceInv, RecoveryOwnsTransport, Joining, Subscribing
    <3> QED BY <3>1, <3>2, <3>3
  <2>9. GhostInv'
    <3> SUFFICES ASSUME NEW u \in consumer_tags, subscribed[u] = none
                 PROVE  timer'[u] = "cancelling" \/ (\E p \in Closers : closing'[p] # "no") \/ recovery_requested'
      BY DEF GhostInv
    <3>1. closing[t] = "no" /\ u # t /\ u \in Types
      BY <1>4 DEF BrokerInv, TypeOK
    <3>2. timer[u] = "cancelling" \/ (\E p \in Closers : closing[p] # "no") \/ recovery_requested
      BY <2>2 DEF GhostInv, Subscribing
    <3> QED BY <3>1, <3>2, <2>1, SetTimerFacts
  <2>10. NoLostSubscription'
    BY <2>1, SetTimerFacts DEF NoLostSubscription
  <2> QED BY <1>3, <2>3, <2>4, <2>5, <2>6, <2>7, <2>8, <2>9, <2>10
<1>7. CASE /\ ~shutdown
           /\ HandleEnd(t) \/ HandleRecord(t)
  <2>1. completed_files' \subseteq Types
    BY <1>7 DEF HandleEnd, HandleRecord, TypeOK
  <2>2. \/ UNCHANGED <<timer, transportVars, recovery_requested>>
        \/ \E s \in {"none", "sleeping"} : SetTimer(t, s)
    BY <1>7 DEF HandleEnd, HandleRecord
  <2> QED BY <1>5, <1>6, <1>7, <2>1, <2>2
<1>8. CASE UNCHANGED <<completed_files, timer, transportVars, recovery_requested>>
  BY <1>5, <1>8 DEF TypeOK
<1> QED BY <1>7, <1>8 DEF Deliver

(* main() is connected: the first transport, with every queue declared *)
LEMMA StartupConnectsKeeps ==
    ASSUME LifecycleInv, StartupConnects
    PROVE  LifecycleInv'
<1> USE DEF LifecycleInv, tagVars, recoveryVars, brokerVars
<1>1. UNCHANGED <<consumer_tags, gauge, completed_files, timer, closing, held, recovery_requested, heard, traffic,
                  recovery, temp, next, backlog, stopping, shutdown, subscribed, rpc, place, failures,
                  requeues>>
  BY DEF StartupConnects
<1>2. main = "connecting" /\ exit_status = "none"
  BY DEF StartupConnects, TypeOK, PhaseInv
<1>3. CASE AttemptFails /\ UNCHANGED <<active_connection, active_channel, have_queues, watching>>
  <2> USE <1>1, <1>2, <1>3
  <2>1. /\ startup_retry' = startup_retry + 1 /\ startup_retry' \in 0 .. MAX_STARTUP_RETRIES
        /\ \/ main' = "waiting" /\ startup_retry' < MAX_STARTUP_RETRIES /\ exit_status' = "none"
           \/ main' = "stopped" /\ exit_status' = "EXIT_STARTUP_FAILED"
    BY LifecycleBudgets DEF AttemptFails, Exit, TypeOK, PhaseInv
  <2>2. TypeOK' /\ PlaceType' /\ ClosersInv' /\ PhaseInv'
    BY <2>1 DEF TypeOK, PlaceType, ClosersInv, PhaseInv, Starting, Subscribing, Opening, Joining
  <2>3. HandlesInv' /\ TagsInv' /\ GaugeMatchesTags'
    BY <2>1 DEF HandlesInv, RecoveryOwnsTransport, TagsInv, GaugeMatchesTags, Starting, Subscribing
  <2>4. ExitIsHonest'
    BY <2>1, SomeType DEF ExitIsHonest, TagsInv, HandlesInv, Starting
  <2>5. BrokerInv' /\ JoinInv' /\ LongGraceInv' /\ GhostInv' /\ NoLostSubscription'
    BY <2>1 DEF JoinInv, LongGraceInv, RecoveryOwnsTransport, BrokerInv, GhostInv, NoLostSubscription,
       Starting, Subscribing, Opening, Joining
  <2> QED BY <2>2, <2>3, <2>4, <2>5
<1>4. CASE /\ active_connection' = Fresh /\ active_channel' = Fresh
           /\ have_queues' = TRUE /\ watching' = TRUE
           /\ main' = "consuming" /\ startup_retry' = 0 /\ exit_status' = exit_status
  <2> USE <1>1, <1>2, <1>4
  <2>1. \A p \in Closers : closing[p] = "no" /\ held[p] = none
    BY DEF ClosersInv, PhaseInv, Starting, Closers
  <2>2. \A t \in Types : subscribed[t] = none /\ rpc[t] # "sent" /\ timer[t] = "none"
    BY DEF BrokerInv, HandlesInv, PhaseInv, Starting
  <2>3. /\ recovery = "idle" /\ temp = none /\ next = 1 /\ consumer_tags = {}
        /\ active_connection = none /\ active_channel = none
    BY DEF HandlesInv, PhaseInv, TagsInv, Starting
  <2>4. InUse \subseteq {none}
    BY <2>1, <2>2, <2>3 DEF InUse
  <2>5. Fresh \in Transports /\ Fresh # none
    BY <2>4, TransportsAssumption, FreshName
  <2>6. TypeOK'
    BY <2>5, LifecycleBudgets DEF TypeOK
  <2>7. PlaceType' /\ ClosersInv' /\ PhaseInv'
    BY <2>2 DEF PlaceType, ClosersInv, PhaseInv, Starting, Subscribing, Opening, Joining
  <2>8. HandlesInv'
    BY <2>1, <2>3, <2>5 DEF HandlesInv, RecoveryOwnsTransport, Starting, Subscribing
  <2>9. TagsInv' /\ GaugeMatchesTags' /\ ExitIsHonest'
    BY <2>3, <2>5 DEF TagsInv, GaugeMatchesTags, ExitIsHonest, Starting, Subscribing
  <2>10. BrokerInv' /\ JoinInv' /\ LongGraceInv' /\ GhostInv' /\ NoLostSubscription'
    BY <2>2, <2>3, <2>5 DEF JoinInv, LongGraceInv, RecoveryOwnsTransport, BrokerInv, GhostInv,
       NoLostSubscription, Starting, Subscribing, Opening, Joining
  <2> QED BY <2>6, <2>7, <2>8, <2>9, <2>10
<1> QED BY <1>3, <1>4 DEF StartupConnects

(* The checker starts a recovery *)
LEMMA CheckKeeps ==
    ASSUME LifecycleInv, Check
    PROVE  LifecycleInv'
<1> USE DEF LifecycleInv, tagVars, alarmVars, mainVars, brokerVars
<1>1. /\ recovery = "idle" /\ main \in {"running", "cancelling"}
      /\ UNCHANGED <<consumer_tags, gauge, completed_files, have_queues, active_connection, active_channel,
                     watching, heard, traffic, temp, next, backlog, main, startup_retry, exit_status,
                     stopping,
                     shutdown, subscribed, rpc, place, failures, requeues>>
  BY DEF Check
<1>2. PlaceType' /\ GaugeMatchesTags' /\ ExitIsHonest'
  BY <1>1 DEF PlaceType, GaugeMatchesTags, ExitIsHonest
<1>3. "recovery" \in Closers /\ "main" \in Closers
  BY DEF Closers
<1>4. CASE TransportSet /\ StartClose("recovery") /\ recovery' = "dropping" /\ UNCHANGED <<timer, recovery_requested>>
  <2> USE <1>1, <1>3, <1>4
  <2>1. TypeOK'
    BY StartCloseFacts DEF TypeOK
  <2>2. ClosersInv'
    BY StartCloseFacts, ClosersAssumption DEF ClosersInv, Closers
  <2>3. PhaseInv'
    BY DEF PhaseInv, Starting, Subscribing, Opening, Joining
  <2>4. HandlesInv'
    BY StartCloseFacts DEF HandlesInv, RecoveryOwnsTransport, Starting, Subscribing
  <2>5. TagsInv'
    BY StartCloseFacts, ClosersAssumption DEF TagsInv, Starting, Subscribing, Closers
  <2>6. BrokerInv' /\ JoinInv' /\ LongGraceInv' /\ NoLostSubscription'
    <3>1. \A t \in Types : closing'[t] = closing[t]
      BY StartCloseFacts, ClosersAssumption DEF Closers
    <3> QED BY <3>1 DEF BrokerInv, JoinInv, LongGraceInv, RecoveryOwnsTransport, NoLostSubscription,
               Opening, Joining, Subscribing
  <2>7. GhostInv'
    BY StartCloseFacts DEF GhostInv
  <2> QED BY <1>2, <2>1, <2>2, <2>3, <2>4, <2>5, <2>6, <2>7
<1>5. CASE ~TransportSet /\ CancelTimersAndConnect
  <2> USE <1>1, <1>5
  <2>1. /\ active_connection = none /\ consumer_tags = {}
        /\ \A t \in Types : subscribed[t] = none /\ rpc[t] # "sent"
    BY DEF TransportSet, HandlesInv, TagsInv, BrokerInv
  <2>2. TypeOK'
    BY ReconnectFacts DEF TypeOK
  <2>3. ClosersInv'
    BY ReconnectFacts, ClosersAssumption DEF ClosersInv, Closers
  <2>4. PhaseInv'
    BY ReconnectFacts DEF PhaseInv, Starting, Subscribing, Opening, Joining
  <2>5. HandlesInv'
    BY <2>1, ReconnectFacts DEF HandlesInv, RecoveryOwnsTransport, Starting, Subscribing
  <2>6. TagsInv'
    BY <2>1, ReconnectFacts DEF TagsInv, Starting, Subscribing
  <2>7. BrokerInv' /\ JoinInv' /\ LongGraceInv' /\ GhostInv' /\ NoLostSubscription'
    BY <2>1, ReconnectFacts DEF JoinInv, LongGraceInv, RecoveryOwnsTransport, BrokerInv, GhostInv,
       NoLostSubscription, Subscribing, Opening, Joining
  <2> QED BY <1>2, <2>2, <2>3, <2>4, <2>5, <2>6, <2>7
<1> QED BY <1>4, <1>5 DEF Check

(* The recovery opens its temporary connection, or fails to *)
LEMMA ConnectKeeps ==
    ASSUME LifecycleInv, Connect
    PROVE  LifecycleInv'
<1> USE DEF LifecycleInv, tagVars, transportVars, alarmVars, mainVars, brokerVars
<1>1. /\ recovery = "connecting"
      /\ UNCHANGED <<consumer_tags, gauge, completed_files, timer, have_queues, active_connection,
                     active_channel, closing, held, watching, heard, traffic, next, backlog, main,
                     startup_retry, exit_status, stopping, shutdown, subscribed, rpc, place, requeues>>
  BY DEF Connect
<1>2. \/ /\ recovery' = "checking" /\ temp' \in Transports /\ temp' # none
         /\ UNCHANGED <<recovery_requested, failures>>
      \/ /\ recovery' \in {"idle", "stopped"} /\ temp' = none
         /\ recovery_requested' = TRUE
         /\ failures' \in 0 .. MaxFailures
  BY <1>1, FreshName, LifecycleBudgets DEF Connect, Fail, Rest, HandlesInv, TypeOK
<1>3. TypeOK'
  <2>1. recovery_requested' \in BOOLEAN /\ failures' \in 0 .. MaxFailures
    BY <1>2 DEF TypeOK
  <2>2. temp' \in Transports \cup {none} /\ recovery' \in {"checking", "idle", "stopped"}
    BY <1>2
  <2> QED BY <1>1, <2>1, <2>2 DEF TypeOK
<1> USE <1>1, <1>2
<1>4. PlaceType' /\ GaugeMatchesTags' /\ ExitIsHonest' /\ ClosersInv'
  BY DEF PlaceType, GaugeMatchesTags, ExitIsHonest, ClosersInv
<1>5. PhaseInv'
  BY DEF PhaseInv, Starting, Subscribing, Opening, Joining
<1>6. HandlesInv' /\ TagsInv'
  BY DEF HandlesInv, RecoveryOwnsTransport, TagsInv, Starting, Subscribing
<1>7. BrokerInv' /\ JoinInv' /\ LongGraceInv' /\ GhostInv' /\ NoLostSubscription'
  BY DEF JoinInv, LongGraceInv, RecoveryOwnsTransport, BrokerInv, GhostInv, NoLostSubscription,
     Subscribing, Opening, Joining
<1> QED BY <1>3, <1>4, <1>5, <1>6, <1>7

(* main() stops the background tasks and closes what is left *)
LEMMA StopBackgroundKeeps ==
    ASSUME LifecycleInv, StopBackground
    PROVE  LifecycleInv'
<1> USE DEF LifecycleInv, tagVars, alarmVars, brokerVars
<1>1. /\ main = "cancelling" /\ stopping = {} /\ recovery' = "stopped"
      /\ UNCHANGED <<consumer_tags, gauge, completed_files, timer, have_queues, active_connection,
                     active_channel, recovery_requested, watching, heard, traffic, temp, next, backlog,
                     startup_retry, stopping, shutdown, subscribed, rpc, place, failures, requeues>>
  BY DEF StopBackground
<1>2. \A t \in Types : timer[t] = "none" /\ closing[t] = "no" /\ held[t] = none
  BY <1>1 DEF PhaseInv, ClosersInv, Closers
<1>3. /\ closing' \in [Closers -> {"no", "channel", "connection"}]
      /\ held' \in [Closers -> Transports \cup {none}]
      /\ closing'["recovery"] = "no" /\ held'["recovery"] = none
      /\ \A t \in Types : closing'[t] = "no" /\ held'[t] = none
      /\ \/ /\ main' = "closing" /\ exit_status' = exit_status
            /\ closing'["main"] # "no" /\ held'["main"] = active_connection
         \/ /\ main' = "stopped" /\ exit_status' = "EXIT_OK"
            /\ closing'["main"] = "no" /\ held'["main"] = none
  <2>1. CASE TransportSet
    <3>1. /\ main' = "closing" /\ exit_status' = exit_status
          /\ closing' = [closing EXCEPT !["recovery"] = "no",
                                        !["main"] = IF active_channel # none THEN "channel" ELSE "connection"]
          /\ held' = [held EXCEPT !["recovery"] = none,
                                  !["main"] = IF active_channel # none THEN active_channel
                                                                       ELSE active_connection]
      BY <2>1 DEF StopBackground
    <3> QED BY <1>2, <3>1, ClosersAssumption DEF TypeOK, HandlesInv, Closers
  <2>2. CASE ~TransportSet
    <3>1. /\ main' = "stopped" /\ exit_status' = "EXIT_OK"
          /\ AbandonCloses({"recovery"})
      BY <2>2 DEF StopBackground, Exit
    <3> QED BY <1>1, <1>2, <3>1, AbandonFacts, ClosersAssumption DEF ClosersInv, Closers
  <2> QED BY <2>1, <2>2
<1> USE <1>1, <1>3
<1>4. TypeOK'
  BY DEF TypeOK
<1>5. PlaceType' /\ GaugeMatchesTags'
  BY DEF PlaceType, GaugeMatchesTags
<1>6. ClosersInv'
  BY <1>2 DEF ClosersInv, Closers
<1>7. PhaseInv' /\ ExitIsHonest'
  BY DEF PhaseInv, ExitIsHonest, Starting, Subscribing, Opening, Joining
<1>8. HandlesInv' /\ TagsInv'
  BY DEF HandlesInv, RecoveryOwnsTransport, TagsInv, Starting, Subscribing, Closers
<1>9. BrokerInv' /\ JoinInv' /\ LongGraceInv' /\ GhostInv' /\ NoLostSubscription'
  BY <1>2 DEF JoinInv, LongGraceInv, RecoveryOwnsTransport, BrokerInv, GhostInv, NoLostSubscription,
     Subscribing, Opening, Joining
<1> QED BY <1>4, <1>5, <1>6, <1>7, <1>8, <1>9

(***************************************************************************)
(* What a closer does once its close ended.  Either the recovery dropped   *)
(* the transport and goes on to connect, or the closer's task is over.     *)
(***************************************************************************)
LEMMA ContinueFacts ==
    ASSUME LifecycleInv, NEW p \in Closers, closing[p] # "no", NEW failed \in BOOLEAN, Continue(p, failed),
           UNCHANGED <<startup_retry, stopping, shutdown>>
    PROVE  /\ timer' \in [Types -> {"none", "sleeping", "cancelling", "closing"}]
           /\ closing' \in [Closers -> {"no", "channel", "connection"}]
           /\ held' \in [Closers -> Transports \cup {none}]
           /\ recovery_requested' \in BOOLEAN
           /\ recovery' \in {recovery, "connecting", "idle", "stopped"}
           /\ recovery' = recovery \/ recovery \in {"dropping", "failing"}
           /\ recovery' = "connecting" =>
                recovery = "dropping" /\ active_connection' = none /\ active_channel' = none
           /\ main' \in {main, "stopped"}
           /\ exit_status' \in {exit_status, "EXIT_OK"}
           /\ exit_status' = "EXIT_OK" => shutdown
           /\ \A q \in Closers : closing'[q] # "no" => closing[q] # "no" /\ held'[q] = held[q]
           /\ \A t \in Types : timer'[t] \in {timer[t], "none"}
           /\ recovery' # "connecting" => recovery_requested' = (recovery_requested \/ failed)
           /\ recovery' # "connecting" => \A t \in Types : timer[t] = "cancelling" => timer'[t] = "cancelling"
           /\ ClosersInv' /\ PhaseInv'
<1> USE DEF LifecycleInv
<1>1. main \notin {"starting", "waiting", "connecting", "stopped"} /\ ~Opening
  BY ClosersAssumption DEF ClosersInv, PhaseInv, Closers, Starting, Subscribing, Opening, Joining, TypeOK
<1>2. main = "closing" <=> p = "main"
  <2>1. ASSUME main = "closing", p # "main" PROVE FALSE
    <3>1. p \in Types \/ p = "recovery"
      BY <2>1 DEF Closers
    <3> QED BY <2>1, <3>1 DEF ClosersInv, PhaseInv
  <2> QED BY <2>1 DEF ClosersInv
<1>3. CASE p = "recovery" /\ recovery = "dropping" /\ active_connection' = none /\ active_channel' = none
  <2>1. CancelTimersAndConnect /\ UNCHANGED <<main, exit_status>>
    BY <1>3 DEF Continue
  <2>2. exit_status = "none"
    BY <1>1 DEF PhaseInv, TypeOK
  <2>3. main \in {"running", "cancelling"}
    BY <1>1, <1>2, <1>3 DEF PhaseInv, Subscribing, TypeOK
  <2>4. \A q \in Closers : q \in Types \/ q = "recovery" \/ q = "main"
    BY DEF Closers
  <2>5. ClosersInv'
    BY <2>1, <2>3, <2>4, ReconnectFacts DEF ClosersInv
  <2>6. PhaseInv'
    BY <1>3, <2>1, <2>3, ReconnectFacts DEF PhaseInv, Starting, Subscribing, Opening, Joining
  <2>7. \A q \in Closers : closing'[q] # "no" => closing[q] # "no" /\ held'[q] = held[q]
    BY <2>1, <2>4, ReconnectFacts
  <2> QED BY <1>3, <2>1, <2>2, <2>5, <2>6, <2>7, ReconnectFacts
<1>4. CASE ~(p = "recovery" /\ recovery = "dropping" /\ active_connection' = none /\ active_channel' = none)
  <2>1. /\ recovery_requested' = (recovery_requested \/ failed)
        /\ AbandonCloses({p})
        /\ timer' = [t \in Types |-> IF t = p THEN "none" ELSE timer[t]]
        /\ recovery' = IF p = "recovery" THEN Rest ELSE recovery
        /\ IF p = "main" THEN Exit("EXIT_OK") ELSE UNCHANGED <<main, exit_status>>
    BY <1>4 DEF Continue
  <2>2. recovery # "connecting" /\ exit_status = "none"
    BY <1>1 DEF Opening, Joining, PhaseInv
  <2>3. recovery' \in {recovery, "idle", "stopped"} /\ recovery_requested' \in BOOLEAN
    BY <2>1 DEF Rest, TypeOK
  <2>4. /\ closing' \in [Closers -> {"no", "channel", "connection"}]
        /\ held' \in [Closers -> Transports \cup {none}]
        /\ closing'[p] = "no" /\ held'[p] = none
        /\ \A q \in Closers : q # p => closing'[q] = closing[q] /\ held'[q] = held[q]
    BY <2>1, AbandonFacts
  <2>11. recovery' = recovery \/ recovery \in {"dropping", "failing"}
    BY <2>1 DEF ClosersInv
  <2>5. timer' \in [Types -> {"none", "sleeping", "cancelling", "closing"}]
    BY <2>1 DEF TypeOK
  <2>6. \A t \in Types : timer'[t] = IF t = p THEN "none" ELSE timer[t]
    BY <2>1
  <2>7. /\ p = "main" => main' = "stopped" /\ exit_status' = "EXIT_OK" /\ shutdown
        /\ p # "main" => UNCHANGED <<main, exit_status>>
    BY <1>2, <2>1 DEF Exit, PhaseInv
  <2>8. ClosersInv'
    <3>1. \A t \in Types : closing'[t] # "no" <=> timer'[t] = "closing"
      BY <2>4, <2>6 DEF ClosersInv, Closers
    <3>2. closing'["main"] # "no" <=> main' = "closing"
      BY <1>2, <2>4, <2>7 DEF ClosersInv, Closers
    <3>3. closing'["recovery"] # "no" <=> recovery' \in {"dropping", "failing"}
      BY <2>1, <2>4 DEF ClosersInv, Closers, Rest
    <3>4. \A q \in Closers : closing'[q] = "no" => held'[q] = none
      BY <2>4 DEF ClosersInv
    <3> QED BY <3>1, <3>2, <3>3, <3>4 DEF ClosersInv
  <2>9. PhaseInv'
    BY <1>1, <1>2, <2>1, <2>3, <2>6, <2>7, <2>11 DEF PhaseInv, ClosersInv, Starting, Subscribing,
       Opening, Joining, Rest
  <2>10. \A t \in Types : timer[t] = "cancelling" => timer'[t] = "cancelling"
    BY <2>6 DEF ClosersInv
  <2> QED BY <1>4, <2>1, <2>2, <2>3, <2>4, <2>5, <2>6, <2>7, <2>8, <2>9, <2>10, <2>11
<1> QED BY <1>3, <1>4

(* The subscriptions a closer may end are those of the transport the handles name *)
LEMMA HeldCovers ==
    ASSUME LifecycleInv, NEW p \in Closers, closing[p] # "no", DropChannels({held[p]})
    PROVE  /\ \A t \in Types : subscribed'[t] \in {none, subscribed[t]}
           /\ \A t \in Types : subscribed'[t] = none
<1>1. \A t \in Types : subscribed'[t] = IF subscribed[t] \in {held[p]} THEN none ELSE subscribed[t]
  BY DropFacts DEF LifecycleInv
<1>2. \A t \in Types : subscribed[t] \in {none, held[p]}
  BY DEF LifecycleInv, BrokerInv, HandlesInv
<1> QED BY <1>1, <1>2

(* With a long grace delay nobody closes the transport while types are subscribed on it *)
LEMMA LongGraceSparesTransport ==
    ASSUME LifecycleInv, NEW p \in Closers, closing[p] # "no", CONSUMER_CANCEL_DELAY # "any"
    PROVE  ~Joining
BY DEF LifecycleInv, ClosersInv, PhaseInv, LongGraceInv, Joining, Subscribing, Closers

(***************************************************************************)
(* A close that ends with both handles forgotten: the tags go with them,   *)
(* and the broker has dropped the transport.                               *)
(***************************************************************************)
LEMMA TornDown ==
    ASSUME LifecycleInv, NEW p \in Closers, closing[p] # "no",
           active_connection' = none, active_channel' = none,
           DropChannels({held[p]}) \/ (active_connection = none /\ UNCHANGED brokerVars),
           ClearTags, Continue(p, FALSE), failures' \in 0 .. MaxFailures,
           UNCHANGED <<completed_files, have_queues, heard, traffic, temp, next, backlog,
                       startup_retry, stopping, shutdown, requeues>>
    PROVE  LifecycleInv'
<1> USE DEF LifecycleInv
<1>1. /\ PlaceType'
      /\ subscribed' \in [Types -> Transports \cup {none}]
      /\ rpc' \in [Types -> {"none", "sent", "done"}]
      /\ \A t \in Types : subscribed'[t] = none /\ rpc'[t] # "sent"
  <2>1. CASE DropChannels({held[p]})
    BY <2>1, DropFacts, HeldCovers
  <2>2. CASE active_connection = none /\ UNCHANGED brokerVars
    BY <2>2 DEF brokerVars, PlaceType, TypeOK, BrokerInv
  <2> QED BY <2>1, <2>2
<1>2. consumer_tags' = {} /\ gauge' = 0 /\ watching' = FALSE
  BY SomeType, TagCount DEF ClearTags, GaugeMatchesTags, TypeOK
<1>3. main \notin {"starting", "waiting", "connecting", "stopped"} /\ ~Opening
  BY ClosersAssumption DEF ClosersInv, PhaseInv, Closers, Starting, Subscribing, Opening, Joining, TypeOK
<1>4. ClosersInv' /\ PhaseInv'
  BY ContinueFacts
<1>5. TypeOK'
  <2>1. /\ timer' \in [Types -> {"none", "sleeping", "cancelling", "closing"}]
        /\ closing' \in [Closers -> {"no", "channel", "connection"}]
        /\ held' \in [Closers -> Transports \cup {none}]
        /\ recovery_requested' \in BOOLEAN
        /\ recovery' \in {recovery, "connecting", "idle", "stopped"}
        /\ main' \in {main, "stopped"}
        /\ exit_status' \in {exit_status, "EXIT_OK"}
    BY ContinueFacts
  <2>2. consumer_tags' \subseteq Types /\ gauge' \in Int
    BY <1>2
  <2>4. watching' \in BOOLEAN
    BY <1>2, Zenon
  <2>3. \A t \in Types : place'[t] \in [Ids(t) -> {"unpublished", "ready", "deferred", "done"} \cup Transports]
    BY <1>1 DEF PlaceType
  <2> QED BY <1>1, <2>1, <2>2, <2>3, <2>4 DEF TypeOK
<1>6. HandlesInv'
  BY <1>3, ContinueFacts DEF HandlesInv, RecoveryOwnsTransport, Starting, Subscribing, Opening, Joining
<1>7. TagsInv'
  BY <1>2, <1>3, ContinueFacts DEF TagsInv, Starting, Subscribing, Opening, Joining
<1>8. GaugeMatchesTags'
  BY <1>2, FS_EmptySet DEF GaugeMatchesTags
<1>9. ExitIsHonest'
  BY <1>2, SomeType, ContinueFacts DEF ExitIsHonest
<1>10. BrokerInv' /\ JoinInv' /\ LongGraceInv'
  <2>1. BrokerInv'
    BY <1>1, <1>3, ContinueFacts DEF BrokerInv
  <2>2. JoinInv'
    BY DEF JoinInv
  <2>3. LongGraceInv'
    BY <1>3, ContinueFacts, LongGraceSparesTransport
       DEF LongGraceInv, RecoveryOwnsTransport, Opening, Joining, Subscribing
  <2> QED BY <2>1, <2>2, <2>3
<1>11. GhostInv' /\ NoLostSubscription'
  BY <1>1, <1>2 DEF GhostInv, NoLostSubscription, TypeOK
<1> QED BY <1>1, <1>4, <1>5, <1>6, <1>7, <1>8, <1>9, <1>10, <1>11

(* The connection's close returns *)
LEMMA ConnectionCloseReturnsKeeps ==
    ASSUME LifecycleInv, NEW p \in Closers, ConnectionCloseReturns(p)
    PROVE  LifecycleInv'
<1>1. failures' \in 0 .. MaxFailures
  BY DEF ConnectionCloseReturns, LifecycleInv, TypeOK
<1> QED BY <1>1, TornDown DEF ConnectionCloseReturns

(* The deadline passes or the connection's close raises: handles and tags stay *)
LEMMA CloseFailsKeeps ==
    ASSUME LifecycleInv, NEW p \in Closers, CloseFails(p)
    PROVE  LifecycleInv'
<1> USE DEF LifecycleInv, tagVars
<1>1. /\ closing[p] # "no" /\ Continue(p, TRUE) /\ Fail
      /\ DropChannels({held[p]}) \/ UNCHANGED brokerVars
      /\ UNCHANGED <<active_connection, active_channel, consumer_tags, gauge, watching, completed_files,
                     have_queues, heard, traffic, temp, next, backlog, startup_retry, stopping, shutdown,
                     requeues>>
  BY DEF CloseFails, KeepHandles
<1>2. failures' \in 0 .. MaxFailures
  BY <1>1, LifecycleBudgets DEF Fail, TypeOK
<1>3. /\ PlaceType'
      /\ subscribed' \in [Types -> Transports \cup {none}]
      /\ rpc' \in [Types -> {"none", "sent", "done"}]
      /\ \A t \in Types : subscribed'[t] \in {none, subscribed[t]}
      /\ \A t \in Types : rpc'[t] = "sent" => rpc[t] = "sent"
      /\ \A t \in Types : rpc'[t] = "done" <=> rpc[t] = "done"
  <2>1. CASE DropChannels({held[p]})
    BY <1>1, <2>1, DropFacts, HeldCovers
  <2>2. CASE UNCHANGED brokerVars
    BY <2>2 DEF brokerVars, PlaceType, TypeOK
  <2> QED BY <1>1, <2>1, <2>2
<1>4. main \notin {"starting", "waiting", "connecting", "stopped"} /\ ~Opening
  BY <1>1, ClosersAssumption DEF ClosersInv, PhaseInv, Closers, Starting, Subscribing, Opening, Joining,
     TypeOK
<1>5. ClosersInv' /\ PhaseInv'
  BY <1>1, ContinueFacts
<1>6. TypeOK'
  <2>1. /\ timer' \in [Types -> {"none", "sleeping", "cancelling", "closing"}]
        /\ closing' \in [Closers -> {"no", "channel", "connection"}]
        /\ held' \in [Closers -> Transports \cup {none}]
        /\ recovery_requested' \in BOOLEAN
        /\ recovery' \in {recovery, "connecting", "idle", "stopped"}
        /\ main' \in {main, "stopped"}
        /\ exit_status' \in {exit_status, "EXIT_OK"}
    BY <1>1, ContinueFacts
  <2> QED BY <1>1, <1>2, <1>3, <2>1 DEF TypeOK, PlaceType
<1>7. HandlesInv'
  BY <1>1, <1>4, ContinueFacts DEF HandlesInv, RecoveryOwnsTransport, Starting, Subscribing, Opening,
     Joining
<1>8. TagsInv'
  BY <1>1, <1>4, ContinueFacts DEF TagsInv, Starting, Subscribing, Opening, Joining, Closers
<1>9. GaugeMatchesTags'
  BY <1>1 DEF GaugeMatchesTags
<1>10. ExitIsHonest'
  BY <1>1, ContinueFacts DEF ExitIsHonest
<1>11. active_connection = none =>
         consumer_tags = {} /\ \A t \in Types : subscribed'[t] = none /\ rpc'[t] # "sent"
  BY <1>3 DEF TagsInv, BrokerInv
<1>12. recovery' # "connecting" => recovery_requested' = TRUE
  BY <1>1, ContinueFacts
<1>13. recovery' = "connecting" => active_connection = none
  BY <1>1, ContinueFacts
<1>14. BrokerInv' /\ JoinInv' /\ LongGraceInv'
  <2>1. /\ \A t \in Types : timer'[t] \in {timer[t], "none"}
        /\ main' \in {main, "stopped"}
        /\ recovery' \in {recovery, "connecting", "idle", "stopped"}
        /\ \A q \in Closers : closing'[q] # "no" => closing[q] # "no"
    BY <1>1, ContinueFacts
  <2>2. \A t \in Types : subscribed'[t] \in {none, active_connection'}
    BY <1>1, <1>3 DEF BrokerInv
  <2>3. Opening' => recovery' = "connecting"
    BY <1>4, <2>1 DEF Opening
  <2>4. \A t \in Types : rpc'[t] = "sent" => active_connection' # none /\ ~Opening' /\ recovery_requested'
    BY <1>1, <1>3, <1>11, <1>12, <1>13, <2>3 DEF BrokerInv
  <2>5. \A t \in Types : timer'[t] = "cancelling" /\ rpc'[t] = "done" => subscribed'[t] = none
    BY <1>3, <2>1 DEF BrokerInv
  <2>6. \A t \in Types : closing'[t] # "no" => subscribed'[t] = none
    BY <1>3, <2>1 DEF BrokerInv, Closers
  <2>7. BrokerInv'
    BY <2>2, <2>4, <2>5, <2>6 DEF BrokerInv
  <2>8. JoinInv'
    BY <1>1, <1>3, <2>1 DEF JoinInv, Joining, Subscribing
  <2>9. LongGraceInv'
    BY <1>1, <1>4, <2>1, LongGraceSparesTransport
       DEF LongGraceInv, RecoveryOwnsTransport, Opening, Joining, Subscribing
  <2> QED BY <2>7, <2>8, <2>9
<1>15. GhostInv'
  BY <1>1, <1>11, <1>12, <1>13 DEF GhostInv
<1>16. NoLostSubscription'
  BY <1>1, <1>3, <1>11, <1>12, <1>13 DEF NoLostSubscription, BrokerInv
<1> QED BY <1>3, <1>5, <1>6, <1>7, <1>8, <1>9, <1>10, <1>14, <1>15, <1>16

(* The channel's close returns or raises; the connection is next, unless another closer was faster *)
LEMMA ChannelCloseReturnsKeeps ==
    ASSUME LifecycleInv, NEW p \in Closers, ChannelCloseReturns(p)
    PROVE  LifecycleInv'
<1> USE DEF LifecycleInv, tagVars
<1>1. /\ closing[p] # "no"
      /\ active_channel' \in {none, active_channel}
      /\ DropChannels({held[p]}) \/ UNCHANGED brokerVars
      /\ UNCHANGED <<active_connection, completed_files, have_queues, heard, traffic, temp, next, backlog,
                     startup_retry, stopping, shutdown, requeues>>
  BY DEF ChannelCloseReturns
<1>2. failures' \in 0 .. MaxFailures
  BY LifecycleBudgets DEF ChannelCloseReturns, Fail, TypeOK
<1>3. CASE active_connection = none
  <2>1. active_connection' = none /\ active_channel' = none
    BY <1>1, <1>3 DEF HandlesInv
  <2>2. ClearTags /\ Continue(p, FALSE)
    BY <1>3, <2>1 DEF ChannelCloseReturns
  <2> QED BY <1>1, <1>2, <1>3, <2>1, <2>2, TornDown
<1>4. CASE active_connection # none
  <2>1. /\ closing' = [closing EXCEPT ![p] = "connection"]
        /\ held' = [held EXCEPT ![p] = active_connection]
        /\ UNCHANGED <<consumer_tags, gauge, timer, recovery_requested, watching, recovery, main, exit_status>>
    BY <1>4 DEF ChannelCloseReturns
  <2>2. /\ PlaceType'
        /\ subscribed' \in [Types -> Transports \cup {none}]
        /\ rpc' \in [Types -> {"none", "sent", "done"}]
        /\ \A t \in Types : subscribed'[t] \in {none, subscribed[t]}
        /\ \A t \in Types : rpc'[t] = "sent" => rpc[t] = "sent"
        /\ \A t \in Types : rpc'[t] = "done" <=> rpc[t] = "done"
    <3>1. CASE DropChannels({held[p]})
      BY <1>1, <3>1, DropFacts, HeldCovers
    <3>2. CASE UNCHANGED brokerVars
      BY <3>2 DEF brokerVars, PlaceType, TypeOK
    <3> QED BY <1>1, <3>1, <3>2
  <2>3. main \notin {"starting", "waiting", "connecting", "stopped"} /\ ~Opening
    BY <1>1, ClosersAssumption DEF ClosersInv, PhaseInv, Closers, Starting, Subscribing, Opening,
       Joining, TypeOK
  <2>4. /\ closing' \in [Closers -> {"no", "channel", "connection"}]
        /\ held' \in [Closers -> Transports \cup {none}]
        /\ \A q \in Closers : closing'[q] # "no" <=> closing[q] # "no"
        /\ \A q \in Closers : held'[q] = IF q = p THEN active_connection ELSE held[q]
    BY <1>1, <2>1 DEF TypeOK
  <2>5. TypeOK'
    BY <1>1, <1>2, <2>1, <2>2, <2>4 DEF TypeOK, PlaceType
  <2>6. ClosersInv'
    BY <1>1, <2>1, <2>4 DEF ClosersInv, Closers
  <2>7. PhaseInv' /\ ExitIsHonest' /\ GaugeMatchesTags'
    BY <1>1, <2>1 DEF PhaseInv, ExitIsHonest, GaugeMatchesTags, Starting, Subscribing, Opening, Joining
  <2>8. HandlesInv'
    BY <1>1, <1>4, <2>1, <2>3, <2>4 DEF HandlesInv, RecoveryOwnsTransport, Starting, Subscribing,
       Opening, Joining
  <2>9. TagsInv'
    BY <1>1, <2>1, <2>4 DEF TagsInv, Starting, Subscribing, Closers
  <2>10. BrokerInv' /\ JoinInv' /\ LongGraceInv'
    <3>1. BrokerInv'
      BY <1>1, <2>1, <2>2, <2>4 DEF BrokerInv, Opening, Closers
    <3>2. JoinInv'
      BY <1>1, <2>1, <2>2 DEF JoinInv, Joining, Subscribing
    <3>3. LongGraceInv'
      BY <1>1, <2>1, <2>3, LongGraceSparesTransport
         DEF LongGraceInv, RecoveryOwnsTransport, Opening, Joining, Subscribing
    <3> QED BY <3>1, <3>2, <3>3
  <2>11. GhostInv'
    BY <1>1, <2>4 DEF GhostInv
  <2>12. NoLostSubscription'
    BY <1>1, <2>1, <2>2 DEF NoLostSubscription
  <2> QED BY <2>2, <2>5, <2>6, <2>7, <2>8, <2>9, <2>10, <2>11, <2>12
<1> QED BY <1>3, <1>4

-----------------------------------------------------------------------------
(* The theorems. *)

(* Every process starts with nothing registered, connected or closing *)
LEMMA InitLifecycle == Init => LifecycleInv
<1> SUFFICES ASSUME Init PROVE LifecycleInv
  OBVIOUS
<1> USE DEF Init
<1>1. PlaceType
  <2>1. PICK k \in [Types -> UNION {0 .. Len(Script[t]) : t \in Types}] : place = Settled(k)
    OBVIOUS
  <2> QED BY <2>1 DEF Settled, PlaceType
<1>2. TypeOK
  <2>1. next \in DOMAIN DATA_TYPES
    BY TypesAssumption
  <2>2. startup_retry \in 0 .. MAX_STARTUP_RETRIES /\ requeues \in 0 .. MaxRequeues /\ gauge \in Int
    BY LifecycleBudgets
  <2> QED BY <1>1, <2>1, <2>2 DEF TypeOK, PlaceType
<1>3. ClosersInv /\ PhaseInv
  BY LifecycleBudgets DEF ClosersInv, PhaseInv, Closers, Starting, Subscribing, Opening, Joining
<1>4. HandlesInv /\ TagsInv /\ ExitIsHonest
  BY DEF HandlesInv, RecoveryOwnsTransport, TagsInv, ExitIsHonest, Starting, Subscribing, Closers
<1>5. GaugeMatchesTags
  BY FS_EmptySet DEF GaugeMatchesTags
<1>6. BrokerInv /\ JoinInv /\ LongGraceInv /\ GhostInv /\ NoLostSubscription
  BY DEF BrokerInv, JoinInv, LongGraceInv, RecoveryOwnsTransport, GhostInv, NoLostSubscription,
     Joining, Subscribing, Closers
<1> QED BY <1>1, <1>2, <1>3, <1>4, <1>5, <1>6 DEF LifecycleInv

(* One step of any task keeps the invariant *)
LEMMA LifecycleStep == LifecycleInv /\ [Next]_vars => LifecycleInv'
<1> SUFFICES ASSUME LifecycleInv, [Next]_vars PROVE LifecycleInv'
  OBVIOUS
<1>1. ASSUME NEW t \in Types,
             \/ Publish(t) \/ BrokerCancels(t) \/ Deliver(t)
             \/ \E i \in Ids(t) : Acknowledge(t, i) \/ Requeue(t, i)
             \/ TimerStep(t) \/ MainCancelReturns(t)
      PROVE  LifecycleInv'
  BY <1>1, PublishKeeps, BrokerCancelsKeeps, DeliverKeeps, AcknowledgeKeeps, RequeueKeeps, TimerFiresKeeps,
     TimerCancelConfirmedKeeps, TimerCancelFailsKeeps, MainCancelReturnsKeeps DEF TimerStep
<1>2. ASSUME NEW p \in Closers, CloseReturns(p) PROVE LifecycleInv'
  BY <1>2, ChannelCloseReturnsKeeps, ConnectionCloseReturnsKeeps, CloseFailsKeeps DEF CloseReturns
<1>3. CASE Check \/ RecoveryStep
  BY <1>3, CheckKeeps, ConnectKeeps, CheckQueuesKeeps, DiscardKeeps, DeclareTopologyKeeps, ConsumeKeeps,
     RegisterKeeps, RecoveryFailsKeeps DEF RecoveryStep
<1>4. CASE Signal \/ MainStep
  BY <1>4, SignalKeeps, InitializeKeeps, TryToConnectKeeps, StartupConnectsKeeps, StartupConsumesKeeps,
     StartupRegistersKeeps, StartupFailsKeeps, CancelAllConsumersKeeps, StopBackgroundKeeps DEF MainStep
<1>5. CASE UNCHANGED vars
  <2> USE <1>5 DEF LifecycleInv, vars, tagVars, transportVars, alarmVars, recoveryVars, mainVars, brokerVars
  <2>1. TypeOK' /\ PlaceType' /\ ClosersInv' /\ PhaseInv'
    BY DEF TypeOK, PlaceType, ClosersInv, PhaseInv, Starting, Subscribing, Opening, Joining
  <2>2. HandlesInv' /\ TagsInv' /\ GaugeMatchesTags' /\ ExitIsHonest'
    BY DEF HandlesInv, RecoveryOwnsTransport, TagsInv, GaugeMatchesTags, ExitIsHonest, Starting, Subscribing
  <2>3. BrokerInv' /\ JoinInv' /\ LongGraceInv' /\ GhostInv' /\ NoLostSubscription'
    BY DEF JoinInv, LongGraceInv, RecoveryOwnsTransport, BrokerInv, GhostInv, NoLostSubscription,
       Subscribing, Opening, Joining
  <2> QED BY <2>1, <2>2, <2>3
<1> QED BY <1>1, <1>2, <1>3, <1>4, <1>5 DEF Next

(* The inductive invariant of the lifecycle *)
THEOREM LifecycleInvariant == Spec => []LifecycleInv
BY InitLifecycle, LifecycleStep, PTL DEF Spec

(* Every variable keeps its type: no step of a timer, the checker or main() leaves the modelled states *)
THEOREM LifecycleTypeCorrect == Spec => []TypeOK
<1>1. LifecycleInv => TypeOK
  BY DEF LifecycleInv
<1> QED BY <1>1, LifecycleInvariant, PTL

(***************************************************************************)
(* The active consumers metric counts the registered tags, whichever of    *)
(* _cancel_consumer, close_rabbitmq_connection and _register_consumer      *)
(* adjusts it.                                                             *)
(***************************************************************************)
THEOREM GaugeIsAccurate == Spec => []GaugeMatchesTags
<1>1. LifecycleInv => GaugeMatchesTags
  BY DEF LifecycleInv
<1> QED BY <1>1, LifecycleInvariant, PTL

(***************************************************************************)
(* A tag whose subscription is gone is about to be cleared: by the cancel  *)
(* that ended it, by a close under way or by a requested recovery.         *)
(***************************************************************************)
THEOREM GhostsAreNoticed == Spec => []NoGhostConsumer
<1>1. LifecycleInv => NoGhostConsumer
  BY DEF LifecycleInv, GhostInv, NoGhostConsumer
<1> QED BY <1>1, LifecycleInvariant, PTL

(***************************************************************************)
(* A subscription is on the transport the handles name, and known by its   *)
(* tag or about to be: close_rabbitmq_connection and _recover_consumers    *)
(* leave none behind.                                                      *)
(***************************************************************************)
THEOREM SubscriptionsAreKnown == Spec => []NoLostSubscription
<1>1. LifecycleInv => NoLostSubscription
  BY DEF LifecycleInv
<1> QED BY <1>1, LifecycleInvariant, PTL

(***************************************************************************)
(* While _recover_consumers builds its new transport no timer, older close *)
(* or shutdown forgets or replaces it, provided that the grace delay       *)
(* outlasts a recovery (300 seconds by default).                           *)
(***************************************************************************)
THEOREM TransportIsOwned ==
    ASSUME CONSUMER_CANCEL_DELAY # "any"
    PROVE  Spec => []RecoveryOwnsTransport
<1>1. LifecycleInv => RecoveryOwnsTransport
  BY DEF LifecycleInv, LongGraceInv
<1> QED BY <1>1, LifecycleInvariant, PTL

(***************************************************************************)
(* main() returns EXIT_OK only when it was asked to stop, and              *)
(* EXIT_STARTUP_FAILED only when some type was never served.               *)
(***************************************************************************)
THEOREM ExitStatusIsHonest == Spec => []ExitIsHonest
<1>1. LifecycleInv => ExitIsHonest
  BY DEF LifecycleInv
<1> QED BY <1>1, LifecycleInvariant, PTL
=============================================================================
