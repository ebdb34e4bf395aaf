------------------------- MODULE ConsumerLifecycle --------------------------
(***************************************************************************)
(* The consumers of the service over its lifetime (brainzgraphinator.py):  *)
(* the startup of main(), completion signals and the grace timer that      *)
(* cancels a finished type's consumer, the bounded teardown of the         *)
(* transport, the periodic checker and its recovery, and the shutdown.     *)
(*                                                                         *)
(* The processes are the grace timers, the checker (with the recovery it   *)
(* runs) and main(), all on one event loop: a step runs from one await to  *)
(* the next.                                                               *)
(***************************************************************************)
EXTENDS Integers, Sequences, FiniteSets

CONSTANTS
    DATA_TYPES,            \* MUSICBRAINZ_DATA_TYPES, in order
    Script,                \* the messages published to each type: "record" or "end"
    CONSUMER_CANCEL_DELAY, \* the grace delay: "off", "any" length, or "long" against a recovery
    Transports,            \* names for AMQP connections, each with its channel
    none,                  \* no transport
    MAX_STARTUP_RETRIES,   \* max_startup_retries
    MaxFailures,           \* bound on failed or timed-out broker calls
    MaxRequeues            \* bound on records that come back after a failure

Types == {DATA_TYPES[i] : i \in DOMAIN DATA_TYPES}

ASSUME TypesAssumption      == /\ DATA_TYPES \in Seq(STRING)
                               /\ DATA_TYPES # <<>>
                               /\ \A i, j \in DOMAIN DATA_TYPES : DATA_TYPES[i] = DATA_TYPES[j] => i = j
ASSUME ScriptAssumption     == Script \in [Types -> Seq({"record", "end"})]
ASSUME CancelAssumption     == CONSUMER_CANCEL_DELAY \in {"off", "any", "long"}
ASSUME TransportsAssumption == none \notin Transports /\ Transports # {}
ASSUME LifecycleBudgets     == MaxFailures \in Nat /\ MaxRequeues \in Nat /\ MAX_STARTUP_RETRIES \in Nat \ {0}

(* Who may be closing the transport: the timer of a type, the recovery, main() *)
Closers == Types \cup {"recovery", "main"}

ASSUME ClosersAssumption == Types \cap {"recovery", "main"} = {}

VARIABLES
    consumer_tags,      \* types with a registered tag
    gauge,              \* the active consumers metric (_record_consumer_delta)
    completed_files,    \* types marked complete
    timer,              \* the grace timer task of each type
    have_queues,        \* whether `queues` holds the handles
    active_connection,
    active_channel,
    recovery_requested, \* consumer_recovery_requested
    watching,           \* consumer_watch_started_at > 0
    heard,              \* types with last_message_time > 0
    traffic,            \* some message_counts > 0
    closing,            \* where each closer is in close_rabbitmq_connection
    held,               \* the transport object its pending close() was called on
    recovery,           \* where the checker's _recover_consumers is
    temp,               \* its temp_connection and temp_channel
    next,               \* the data type it, or main() at startup, registers next
    backlog,            \* queues_with_messages
    main,               \* where main() is
    startup_retry,      \* its failed attempts to connect
    exit_status,        \* what it returned
    stopping,           \* tags whose cancel main() still awaits
    shutdown,           \* shutdown_requested
    subscribed,         \* broker: the channel each type's consumer lives on
    rpc,                \* broker: the Basic.Cancel of each type
    place,              \* broker: where each message is
    failures, requeues  \* budget used; some of it may be used up at the start

tagVars == <<consumer_tags, gauge>>
transportVars == <<active_connection, active_channel, closing, held>>
alarmVars == <<watching, heard, traffic>>
recoveryVars == <<recovery, temp, next, backlog>>
mainVars == <<main, startup_retry, exit_status, stopping, shutdown>>
brokerVars == <<subscribed, rpc, place>>
vars == <<tagVars, completed_files, timer, have_queues, transportVars, recovery_requested,
          alarmVars, recoveryVars, mainVars, brokerVars, failures, requeues>>

Ids(t) == DOMAIN Script[t]

TypeOK ==
    /\ consumer_tags \subseteq Types
    /\ gauge \in Int
    /\ completed_files \subseteq Types
    /\ timer \in [Types -> {"none", "sleeping", "cancelling", "closing"}]
    /\ have_queues \in BOOLEAN
    /\ active_connection \in Transports \cup {none}
    /\ active_channel \in Transports \cup {none}
    /\ recovery_requested \in BOOLEAN
    /\ watching \in BOOLEAN
    /\ heard \subseteq Types
    /\ traffic \in BOOLEAN
    /\ closing \in [Closers -> {"no", "channel", "connection"}]
    /\ held \in [Closers -> Transports \cup {none}]
    /\ recovery \in {"idle", "dropping", "connecting", "checking", "discarding",
                     "declaring", "consuming", "registering", "failing", "stopped"}
    /\ temp \in Transports \cup {none}
    /\ next \in DOMAIN DATA_TYPES
    /\ backlog \subseteq Types
    /\ main \in {"starting", "waiting", "connecting", "consuming", "registering",
                 "running", "cancelling", "closing", "stopped"}
    /\ startup_retry \in 0 .. MAX_STARTUP_RETRIES
    /\ exit_status \in {"none", "EXIT_OK", "EXIT_STARTUP_FAILED"}
    /\ stopping \subseteq Types
    /\ shutdown \in BOOLEAN
    /\ subscribed \in [Types -> Transports \cup {none}]
    /\ rpc \in [Types -> {"none", "sent", "done"}]
    /\ \A t \in Types : place[t] \in [Ids(t) -> {"unpublished", "ready", "deferred", "done"} \cup Transports]
    /\ failures \in 0 .. MaxFailures
    /\ requeues \in 0 .. MaxRequeues

(* The first messages of each type were settled before this process started *)
Settled(k) == [t \in Types |-> [i \in Ids(t) |-> IF i <= k[t] THEN "done" ELSE "unpublished"]]

Init ==
    /\ consumer_tags = {}
    /\ gauge = 0
    /\ completed_files = {}
    /\ timer = [t \in Types |-> "none"]
    /\ have_queues = FALSE
    /\ active_connection = none
    /\ active_channel = none
    /\ recovery_requested = FALSE
    /\ watching = FALSE
    /\ heard = {}
    /\ traffic = FALSE
    /\ closing = [p \in Closers |-> "no"]
    /\ held = [p \in Closers |-> none]
    /\ recovery = "idle"
    /\ temp = none
    /\ next = 1
    /\ backlog = {}
    /\ main = "starting"
    /\ startup_retry = 0
    /\ exit_status = "none"
    /\ stopping = {}
    /\ shutdown = FALSE
    /\ subscribed = [t \in Types |-> none]
    /\ rpc = [t \in Types |-> "none"]
    /\ \E k \in [Types -> UNION {0 .. Len(Script[t]) : t \in Types}] : place = Settled(k)
    /\ failures \in 0 .. MaxFailures
    /\ requeues = 0

Fail == failures < MaxFailures /\ failures' = failures + 1

-----------------------------------------------------------------------------
(* The broker. *)

At(t, where) == {i \in Ids(t) : place[t][i] = where}

First(S) == CHOOSE i \in S : \A j \in S : i <= j

Put(t, i, where) == place' = [place EXCEPT ![t][i] = where]

(* The channels in C are gone: their consumers, calls and unsettled deliveries with them *)
DropChannels(C) ==
    /\ subscribed' = [t \in Types |-> IF subscribed[t] \in C THEN none ELSE subscribed[t]]
    /\ rpc' = [t \in Types |-> IF rpc[t] = "sent" THEN "none" ELSE rpc[t]]
    /\ place' = [t \in Types |-> [i \in Ids(t) |-> IF place[t][i] \in C \cup {"deferred"} THEN "ready"
                                                                                        ELSE place[t][i]]]

(* The producer publishes the next message of a type's script *)
Publish(t) ==
    /\ At(t, "unpublished") # {}
    /\ Put(t, First(At(t, "unpublished")), "ready")
    /\ UNCHANGED <<tagVars, completed_files, timer, have_queues, transportVars, recovery_requested,
                   alarmVars, recoveryVars, mainVars, subscribed, rpc, failures, requeues>>

(* The broker processes a Basic.Cancel, whether or not anyone still awaits its reply *)
BrokerCancels(t) ==
    /\ rpc[t] = "sent"
    /\ rpc' = [rpc EXCEPT ![t] = "done"]
    /\ subscribed' = [subscribed EXCEPT ![t] = none]
    /\ UNCHANGED <<tagVars, completed_files, timer, have_queues, transportVars, recovery_requested,
                   alarmVars, recoveryVars, mainVars, place, failures, requeues>>

-----------------------------------------------------------------------------
(* The message handler, as far as consumers are concerned. *)

(* Cancelling these timer tasks interrupts a cancel in flight, and a close half done *)
Interrupts(S) == \E t \in S : timer[t] = "cancelling"

AbandonCloses(S) ==
    /\ closing' = [p \in Closers |-> IF p \in S THEN "no" ELSE closing[p]]
    /\ held' = [p \in Closers |-> IF p \in S THEN none ELSE held[p]]

SetTimer(t, state) ==
    /\ timer' = [timer EXCEPT ![t] = state]
    /\ AbandonCloses({t})
    /\ recovery_requested' = (recovery_requested \/ Interrupts({t}))
    /\ UNCHANGED <<active_connection, active_channel>>

(* check_file_completion: schedule the cancellation, mark the type complete *)
HandleEnd(t) ==
    /\ completed_files' = completed_files \cup {t}
    /\ IF CONSUMER_CANCEL_DELAY # "off" /\ have_queues
       THEN SetTimer(t, "sleeping")
       ELSE UNCHANGED <<timer, transportVars, recovery_requested>>

(* A record re-arms the alarm of its type and invalidates its timer *)
HandleRecord(t) ==
    /\ completed_files' = completed_files \ {t}
    /\ SetTimer(t, "none")

Deliver(t) ==
    /\ main # "stopped"
    /\ subscribed[t] # none
    /\ At(t, "ready") # {}
    /\ LET i == First(At(t, "ready"))
       IN  \/ /\ shutdown
              /\ Put(t, i, "deferred")
              /\ UNCHANGED <<completed_files, timer, transportVars, recovery_requested>>
           \/ /\ ~shutdown
              /\ Put(t, i, subscribed[t])
              /\ IF Script[t][i] = "end" THEN HandleEnd(t) ELSE HandleRecord(t)
    /\ UNCHANGED <<tagVars, have_queues, alarmVars, recoveryVars, mainVars,
                   subscribed, rpc, failures, requeues>>

Acknowledge(t, i) ==
    /\ main # "stopped"
    /\ place[t][i] \in Transports
    /\ Put(t, i, "done")
    /\ IF Script[t][i] = "record"
       THEN traffic' = TRUE /\ heard' = heard \cup {t}
       ELSE UNCHANGED <<traffic, heard>>
    /\ UNCHANGED <<tagVars, completed_files, timer, have_queues, transportVars, recovery_requested,
                   watching, recoveryVars, mainVars, subscribed, rpc, failures, requeues>>

Requeue(t, i) ==
    /\ main # "stopped"
    /\ place[t][i] \in Transports
    /\ Script[t][i] = "record"
    /\ requeues < MaxRequeues
    /\ requeues' = requeues + 1
    /\ Put(t, i, "ready")
    /\ UNCHANGED <<tagVars, completed_files, timer, have_queues, transportVars, recovery_requested,
                   alarmVars, recoveryVars, mainVars, subscribed, rpc, failures>>

-----------------------------------------------------------------------------
(* close_rabbitmq_connection, run by closer p. *)

TransportSet == active_connection # none \/ active_channel # none

(* Up to the first await: the channel's close, else the connection's *)
StartClose(p) ==
    /\ closing' = [closing EXCEPT ![p] = IF active_channel # none THEN "channel" ELSE "connection"]
    /\ held' = [held EXCEPT ![p] = IF active_channel # none THEN active_channel ELSE active_connection]

ClearTags ==
    /\ consumer_tags' = {}
    /\ gauge' = gauge - Cardinality(consumer_tags)
    /\ watching' = FALSE

Rest == IF shutdown THEN "stopped" ELSE "idle"

Exit(status) == main' = "stopped" /\ exit_status' = status

(* Mutant: the timers run on *)
KeepTimersAndConnect ==
    /\ timer' = timer
    /\ AbandonCloses({"recovery"})
    /\ recovery_requested' = FALSE
    /\ recovery' = "connecting"

(* _recover_consumers after the drop: cancel every timer and go on to connect *)
CancelTimersAndConnect ==
    /\ timer' = [t \in Types |-> "none"]
    /\ AbandonCloses(Types \cup {"recovery"})
    /\ recovery_requested' = Interrupts(Types)
    /\ recovery' = "connecting"

(***************************************************************************)
(* What p does once its close returns.  The recovery goes on only if it    *)
(* dropped the transport; main() leaves the connection's context manager   *)
(* and exits, which ends every subscription.                               *)
(***************************************************************************)
Continue(p, failed) ==
    /\ IF p = "recovery" /\ recovery = "dropping" /\ active_connection' = none /\ active_channel' = none
       THEN CancelTimersAndConnect
       ELSE /\ recovery_requested' = (recovery_requested \/ failed)
            /\ AbandonCloses({p})
            /\ timer' = [t \in Types |-> IF t = p THEN "none" ELSE timer[t]]
            /\ recovery' = IF p = "recovery" THEN Rest ELSE recovery
    /\ IF p = "main" THEN Exit("EXIT_OK") ELSE UNCHANGED <<main, exit_status>>

(* The channel's close returns or raises; the connection's close is next *)
ChannelCloseReturns(p) ==
    /\ closing[p] = "channel"
    /\ \/ /\ active_channel' = none
          /\ DropChannels({held[p]})
          /\ UNCHANGED failures
       \/ /\ Fail
          /\ UNCHANGED active_channel
          /\ DropChannels({held[p]}) \/ UNCHANGED brokerVars
    /\ UNCHANGED active_connection
    /\ IF active_connection # none
       THEN /\ closing' = [closing EXCEPT ![p] = "connection"]
            /\ held' = [held EXCEPT ![p] = active_connection]
            /\ UNCHANGED <<tagVars, timer, recovery_requested, watching, recovery, main, exit_status>>
       ELSE IF active_channel' # none
       THEN /\ Continue(p, TRUE)
            /\ UNCHANGED <<tagVars, watching>>
       ELSE ClearTags /\ Continue(p, FALSE)
    /\ UNCHANGED <<completed_files, have_queues, heard, traffic, temp, next, backlog,
                   startup_retry, stopping, shutdown, requeues>>

ConnectionCloseReturns(p) ==
    /\ closing[p] = "connection"
    /\ active_connection' = none
    /\ active_channel' = none
    /\ DropChannels({held[p]})
    /\ ClearTags
    /\ Continue(p, FALSE)
    /\ UNCHANGED <<completed_files, have_queues, heard, traffic, temp, next, backlog,
                   startup_retry, stopping, shutdown, failures, requeues>>

(* Mutant: the handles are forgotten although the close failed *)
ForgetHandles == active_connection' = none /\ active_channel' = none

(* Handles and tags stay for the next attempt *)
KeepHandles == UNCHANGED <<active_connection, active_channel>>

(* The deadline passes, or the connection's close raises *)
CloseFails(p) ==
    /\ closing[p] # "no"
    /\ Fail
    /\ \/ DropChannels({held[p]})
       \/ UNCHANGED brokerVars
    /\ KeepHandles
    /\ Continue(p, TRUE)
    /\ UNCHANGED <<tagVars, watching, completed_files, have_queues, heard, traffic, temp, next, backlog,
                   startup_retry, stopping, shutdown, requeues>>

-----------------------------------------------------------------------------
(* The grace timer: cancel_after_delay. *)

(***************************************************************************)
(* The sleep of CONSUMER_CANCEL_DELAY seconds is over.  A long delay (the  *)
(* default of 300 seconds against a few broker calls) outlasts the startup *)
(* or the recovery it began in; the timers from before that recovery may   *)
(* fire while it still drops the old transport.                            *)
(***************************************************************************)
GraceOver ==
    \/ CONSUMER_CANCEL_DELAY = "any"
    \/ recovery \in {"idle", "dropping", "stopped"} /\ main \notin {"consuming", "registering"}

TimerFires(t) ==
    /\ timer[t] = "sleeping"
    /\ GraceOver
    /\ \/ /\ t \in consumer_tags
          /\ timer' = [timer EXCEPT ![t] = "cancelling"]
          /\ rpc' = [rpc EXCEPT ![t] = "sent"]
       \/ /\ t \notin consumer_tags
          /\ timer' = [timer EXCEPT ![t] = "none"]
          /\ UNCHANGED rpc
    /\ UNCHANGED <<tagVars, completed_files, have_queues, transportVars, recovery_requested, alarmVars,
                   recoveryVars, mainVars, subscribed, place, failures, requeues>>

(* Mutant: the metric is adjusted for a tag that is already gone *)
PopTagAlways(t) ==
    /\ consumer_tags' = consumer_tags \ {t}
    /\ gauge' = gauge - 1

(* The tail of _cancel_consumer *)
PopTag(t) ==
    /\ consumer_tags' = consumer_tags \ {t}
    /\ gauge' = IF t \in consumer_tags THEN gauge - 1 ELSE gauge

AllIdle(tags) == tags = {} /\ completed_files = Types

TimerCancelConfirmed(t) ==
    /\ timer[t] = "cancelling"
    /\ rpc[t] = "done"
    /\ rpc' = [rpc EXCEPT ![t] = "none"]
    /\ PopTag(t)
    /\ IF AllIdle(consumer_tags') /\ TransportSet
       THEN timer' = [timer EXCEPT ![t] = "closing"] /\ StartClose(t)
       ELSE timer' = [timer EXCEPT ![t] = "none"] /\ UNCHANGED <<closing, held>>
    /\ UNCHANGED <<completed_files, have_queues, active_connection, active_channel, recovery_requested,
                   alarmVars, recoveryVars, mainVars, subscribed, place, failures, requeues>>

(* The call raises, for one because its channel is gone, or its deadline passes *)
CallFails(t) == Fail \/ (rpc[t] = "none" /\ UNCHANGED failures)

(* Mutant: a failed cancel is only logged *)
LogOnly == UNCHANGED recovery_requested

RequestRecovery == recovery_requested' = TRUE

TimerCancelFails(t) ==
    /\ timer[t] = "cancelling"
    /\ CallFails(t)
    /\ timer' = [timer EXCEPT ![t] = "none"]
    /\ RequestRecovery
    /\ rpc' = [rpc EXCEPT ![t] = IF @ = "done" THEN "none" ELSE @]
    /\ UNCHANGED <<tagVars, completed_files, have_queues, transportVars, alarmVars, recoveryVars,
                   mainVars, subscribed, place, requeues>>

-----------------------------------------------------------------------------
(* The checker: periodic_queue_checker and _recover_consumers. *)

(* _consumer_alarm_types *)
AlarmTypes(grace_expired) ==
    IF ~traffic /\ ~grace_expired
    THEN {}
    ELSE {t \in Types \ completed_files :
            \/ t \notin consumer_tags
            \/ /\ grace_expired
               /\ Cardinality(completed_files) >= Len(DATA_TYPES) - 1
               /\ t \notin heard}

(* Mutant: the checker looks at the alarms alone *)
RecoveryNeededByAlarm ==
    \/ AlarmTypes(FALSE) # {}
    \/ watching /\ AlarmTypes(TRUE) # {}
    \/ active_connection = none /\ consumer_tags = {}

(* Mutant: a connection that was given up is not missed *)
RecoveryNeededIdleForgotten ==
    \/ recovery_requested
    \/ AlarmTypes(FALSE) # {}
    \/ watching /\ AlarmTypes(TRUE) # {}

RecoveryNeeded ==
    \/ recovery_requested
    \/ AlarmTypes(FALSE) # {}
    \/ watching /\ AlarmTypes(TRUE) # {}
    \/ active_connection = none /\ consumer_tags = {}

Check ==
    /\ recovery = "idle"
    /\ main \in {"running", "cancelling"}
    /\ RecoveryNeeded
    /\ IF TransportSet
       THEN /\ StartClose("recovery")
            /\ recovery' = "dropping"
            /\ UNCHANGED <<timer, recovery_requested>>
       ELSE CancelTimersAndConnect
    /\ UNCHANGED <<tagVars, completed_files, have_queues, active_connection, active_channel, alarmVars,
                   temp, next, backlog, mainVars, brokerVars, failures, requeues>>

InUse == {active_connection, active_channel, temp}
             \cup {held[p] : p \in Closers} \cup {subscribed[t] : t \in Types}

(* One name is as good as another *)
Fresh == CHOOSE c \in Transports : c \notin InUse

Connect ==
    /\ recovery = "connecting"
    /\ \/ /\ Transports \ InUse # {}
          /\ temp' = Fresh
          /\ recovery' = "checking"
          /\ UNCHANGED <<recovery_requested, failures>>
       \/ /\ Fail
          /\ recovery' = Rest
          /\ recovery_requested' = TRUE
          /\ UNCHANGED temp
    /\ UNCHANGED <<tagVars, completed_files, timer, have_queues, transportVars, alarmVars, next, backlog,
                   mainVars, brokerVars, requeues>>

(* Passive declares count the ready messages; without any the connection is given up *)
CheckQueues ==
    /\ recovery = "checking"
    /\ backlog' = {t \in Types : At(t, "ready") # {}}
    /\ IF backlog' = {}
       THEN /\ recovery' = "discarding"
            /\ UNCHANGED <<active_connection, active_channel, watching, have_queues>>
       ELSE /\ recovery' = "declaring"
            /\ active_connection' = temp
            /\ active_channel' = temp
            /\ watching' = TRUE
            /\ have_queues' = FALSE
    /\ UNCHANGED <<tagVars, completed_files, timer, closing, held, recovery_requested, heard, traffic,
                   temp, next, mainVars, brokerVars, failures, requeues>>

Discard ==
    /\ recovery = "discarding"
    /\ recovery' = Rest
    /\ temp' = none
    /\ UNCHANGED <<tagVars, completed_files, timer, have_queues, transportVars, recovery_requested,
                   alarmVars, next, backlog, mainVars, brokerVars, failures, requeues>>

DeclareTopology ==
    /\ recovery = "declaring"
    /\ recovery' = "consuming"
    /\ have_queues' = TRUE
    /\ next' = 1
    /\ UNCHANGED <<tagVars, completed_files, timer, transportVars, recovery_requested, alarmVars,
                   temp, backlog, mainVars, brokerVars, failures, requeues>>

(* Mutant: one type too many *)
AdvanceTooFar ==
    IF next <= Len(DATA_TYPES)
    THEN /\ next' = next + 1
         /\ recovery' = "consuming"
         /\ UNCHANGED temp
    ELSE /\ next' = 1
         /\ recovery' = Rest
         /\ temp' = none

(* On to the next type, or the recovery is over *)
Advance ==
    IF next < Len(DATA_TYPES)
    THEN /\ next' = next + 1
         /\ recovery' = "consuming"
         /\ UNCHANGED temp
    ELSE /\ next' = 1
         /\ recovery' = Rest
         /\ temp' = none

(* Nobody closed transport c or is about to: a call on it need not raise *)
Open(c) == active_channel = c /\ \A p \in Closers : held[p] # c

(* queue.consume(): from here on the broker delivers, before the tag is recorded *)
Consume ==
    /\ recovery = "consuming"
    /\ LET t == DATA_TYPES[next]
       IN  IF t \in consumer_tags
           THEN Advance /\ UNCHANGED subscribed
           ELSE /\ Open(temp)
                /\ subscribed' = [subscribed EXCEPT ![t] = temp]
                /\ recovery' = "registering"
                /\ UNCHANGED <<next, temp>>
    /\ UNCHANGED <<tagVars, completed_files, timer, have_queues, transportVars, recovery_requested,
                   alarmVars, backlog, mainVars, rpc, place, failures, requeues>>

(* The call has returned: _register_consumer, and un-complete a type that had a backlog *)
Register ==
    /\ recovery = "registering"
    /\ LET t == DATA_TYPES[next]
       IN  /\ subscribed[t] # none
           /\ consumer_tags' = consumer_tags \cup {t}
           /\ gauge' = gauge + 1
           /\ completed_files' = completed_files \ (backlog \cap {t})
           /\ heard' = heard \cup {t}
    /\ Advance
    /\ UNCHANGED <<timer, have_queues, transportVars, recovery_requested, watching, traffic, backlog,
                   mainVars, brokerVars, failures, requeues>>

(* The except branch: adopt the transport so that it is closed, by this close or the next *)
RecoveryFails ==
    /\ recovery \in {"checking", "discarding", "declaring", "consuming", "registering"}
    /\ \/ Fail
       \/ recovery \in {"consuming", "registering"} /\ ~Open(temp) /\ UNCHANGED failures
    /\ recovery' = "failing"
    /\ recovery_requested' = TRUE
    /\ active_connection' = temp
    /\ active_channel' = temp
    /\ have_queues' = FALSE
    /\ closing' = [closing EXCEPT !["recovery"] = "channel"]
    /\ held' = [held EXCEPT !["recovery"] = temp]
    /\ temp' = none
    /\ next' = 1
    /\ UNCHANGED <<tagVars, completed_files, timer, alarmVars, backlog, mainVars, brokerVars, requeues>>

-----------------------------------------------------------------------------
(* main() up to its loop; the checker starts when every consumer is registered. *)

Give(status) ==
    /\ Exit(status)
    /\ UNCHANGED <<active_connection, active_channel, have_queues, watching, startup_retry>>

(* Configuration and Neo4j: a fault ends the process *)
Initialize ==
    /\ main = "starting"
    /\ \/ /\ main' = "waiting"
          /\ UNCHANGED <<active_connection, active_channel, have_queues, watching, startup_retry, exit_status>>
       \/ Give("EXIT_STARTUP_FAILED")
    /\ UNCHANGED <<tagVars, completed_files, timer, closing, held, recovery_requested, heard, traffic,
                   recoveryVars, stopping, shutdown, brokerVars, failures, requeues>>

(* The head of the retry loop, at first and after each wait *)
TryToConnect ==
    /\ main = "waiting"
    /\ \/ shutdown /\ Give("EXIT_OK")
       \/ /\ ~shutdown
          /\ main' = "connecting"
          /\ UNCHANGED <<active_connection, active_channel, have_queues, watching, startup_retry, exit_status>>
    /\ UNCHANGED <<tagVars, completed_files, timer, closing, held, recovery_requested, heard, traffic,
                   recoveryVars, stopping, shutdown, brokerVars, failures, requeues>>

(* Mutant: giving up leaves the loop and ends like a shutdown *)
AttemptFailsQuietly ==
    /\ startup_retry' = startup_retry + 1
    /\ IF startup_retry' < MAX_STARTUP_RETRIES
       THEN main' = "waiting" /\ UNCHANGED exit_status
       ELSE Exit("EXIT_OK")

(* Mutant: the last attempt is like the others *)
AttemptFailsAgain ==
    /\ main' = "waiting"
    /\ UNCHANGED <<exit_status, startup_retry>>

AttemptFails ==
    /\ startup_retry' = startup_retry + 1
    /\ IF startup_retry' < MAX_STARTUP_RETRIES
       THEN main' = "waiting" /\ UNCHANGED exit_status
       ELSE Exit("EXIT_STARTUP_FAILED")

(* With the connection come the channel and the declared queues; nothing else runs yet *)
StartupConnects ==
    /\ main = "connecting"
    /\ \/ /\ active_connection' = Fresh
          /\ active_channel' = Fresh
          /\ have_queues' = TRUE
          /\ watching' = TRUE
          /\ main' = "consuming"
          /\ startup_retry' = 0  \* not read any more
          /\ UNCHANGED exit_status
       \/ /\ AttemptFails
          /\ UNCHANGED <<active_connection, active_channel, have_queues, watching>>
    /\ UNCHANGED <<tagVars, completed_files, timer, closing, held, recovery_requested, heard, traffic,
                   recoveryVars, stopping, shutdown, brokerVars, failures, requeues>>

StartupConsumes ==
    /\ main = "consuming"
    /\ active_channel # none /\ Open(active_channel)
    /\ subscribed' = [subscribed EXCEPT ![DATA_TYPES[next]] = active_connection]
    /\ main' = "registering"
    /\ UNCHANGED <<tagVars, completed_files, timer, have_queues, transportVars, recovery_requested, alarmVars,
                   recoveryVars, startup_retry, exit_status, stopping, shutdown, rpc, place, failures, requeues>>

StartupRegisters ==
    /\ main = "registering"
    /\ subscribed[DATA_TYPES[next]] # none
    /\ consumer_tags' = consumer_tags \cup {DATA_TYPES[next]}
    /\ gauge' = gauge + 1
    /\ IF next < Len(DATA_TYPES)
       THEN next' = next + 1 /\ main' = "consuming"
       ELSE next' = 1 /\ main' = "running"
    /\ UNCHANGED <<completed_files, timer, have_queues, transportVars, recovery_requested, alarmVars, recovery,
                   temp, backlog, startup_retry, exit_status, stopping, shutdown, brokerVars, failures, requeues>>

(* A broker call raises: the connection's context manager closes it and the process ends *)
StartupFails ==
    /\ main \in {"consuming", "registering"}
    /\ Exit("EXIT_STARTUP_FAILED")
    /\ timer' = [t \in Types |-> "none"]
    /\ AbandonCloses(Types)
    /\ DropChannels({active_connection})
    /\ UNCHANGED <<tagVars, completed_files, have_queues, active_connection, active_channel,
                   recovery_requested, alarmVars,
                   recoveryVars, startup_retry, stopping, shutdown, failures, requeues>>

-----------------------------------------------------------------------------
(* main() from the signal to its exit. *)

Signal ==
    /\ ~shutdown
    /\ shutdown' = TRUE
    /\ UNCHANGED <<tagVars, completed_files, timer, have_queues, transportVars, recovery_requested,
                   alarmVars, recoveryVars, main, startup_retry, exit_status, stopping, brokerVars,
                   failures, requeues>>

(* cancel_all_consumers: stop the timers, then cancel every registered consumer at once *)
CancelAllConsumers ==
    /\ main = "running" /\ shutdown
    /\ main' = "cancelling"
    /\ timer' = [t \in Types |-> "none"]
    /\ AbandonCloses(Types)
    /\ \/ /\ have_queues
          /\ stopping' = consumer_tags
          /\ rpc' = [t \in Types |-> IF t \in consumer_tags THEN "sent" ELSE rpc[t]]
          /\ recovery_requested' = (recovery_requested \/ Interrupts(Types))
       \/ /\ ~have_queues
          /\ stopping' = {}
          /\ recovery_requested' = (recovery_requested \/ Interrupts(Types) \/ consumer_tags # {})
          /\ UNCHANGED rpc
    /\ UNCHANGED <<tagVars, completed_files, have_queues, active_connection, active_channel, alarmVars,
                   recoveryVars, startup_retry, exit_status, shutdown, subscribed, place, failures, requeues>>

(* Mutant: the cancel has no deadline and waits for its reply alone *)
MainCancelFailsNever(t) == rpc[t] = "lost" /\ UNCHANGED failures

MainCancelFails(t) == CallFails(t)

MainCancelReturns(t) ==
    /\ t \in stopping
    /\ stopping' = stopping \ {t}
    /\ \/ /\ rpc[t] = "done"
          /\ PopTag(t)
          /\ UNCHANGED <<recovery_requested, failures>>
       \/ /\ MainCancelFails(t)
          /\ recovery_requested' = TRUE
          /\ UNCHANGED tagVars
    /\ rpc' = [rpc EXCEPT ![t] = IF @ = "done" THEN "none" ELSE @]
    /\ UNCHANGED <<completed_files, timer, have_queues, transportVars, alarmVars, recoveryVars,
                   main, startup_retry, exit_status, shutdown, subscribed, place, requeues>>

(* Cancel the background tasks, the recovery included, and close what the handles name *)
StopBackground ==
    /\ main = "cancelling" /\ stopping = {}
    /\ recovery' = "stopped"
    /\ IF TransportSet
       THEN /\ main' = "closing"
            /\ closing' = [closing EXCEPT !["recovery"] = "no",
                                          !["main"] = IF active_channel # none THEN "channel" ELSE "connection"]
            /\ held' = [held EXCEPT !["recovery"] = none,
                                    !["main"] = IF active_channel # none THEN active_channel
                                                                         ELSE active_connection]
            /\ UNCHANGED exit_status
       ELSE /\ Exit("EXIT_OK")
            /\ AbandonCloses({"recovery"})
    /\ UNCHANGED <<tagVars, completed_files, timer, have_queues, active_connection, active_channel,
                   recovery_requested, alarmVars, temp, next, backlog, startup_retry, stopping, shutdown,
                   brokerVars, failures, requeues>>

-----------------------------------------------------------------------------
CloseReturns(p) == ChannelCloseReturns(p) \/ ConnectionCloseReturns(p) \/ CloseFails(p)

TimerStep(t) == TimerFires(t) \/ TimerCancelConfirmed(t) \/ TimerCancelFails(t)

RecoveryStep ==
    \/ Connect \/ CheckQueues \/ Discard \/ DeclareTopology \/ Consume \/ Register
    \/ RecoveryFails

MainStep ==
    \/ Initialize \/ TryToConnect \/ StartupConnects \/ StartupConsumes \/ StartupRegisters \/ StartupFails
    \/ CancelAllConsumers \/ StopBackground

Next ==
    \/ \E t \in Types : \/ Publish(t)
                        \/ BrokerCancels(t)
                        \/ Deliver(t)
                        \/ \E i \in Ids(t) : Acknowledge(t, i) \/ Requeue(t, i)
                        \/ TimerStep(t)
                        \/ MainCancelReturns(t)
    \/ \E p \in Closers : CloseReturns(p)
    \/ Check
    \/ RecoveryStep
    \/ Signal
    \/ MainStep

Spec == Init /\ [][Next]_vars

(***************************************************************************)
(* The broker replies, handlers finish, every await of a timer, the        *)
(* checker and main() ends (their broker calls have deadlines or fail),    *)
(* and sleeping tasks wake up.  A delivery takes moments and the checker   *)
(* sleeps STUCK_CHECK_INTERVAL seconds, so a consumer that is subscribed   *)
(* again and again is not forever cut off before its first delivery:       *)
(* strong fairness.  Nothing makes the producer publish or an operator     *)
(* stop the service.                                                       *)
(***************************************************************************)
Fairness ==
    /\ \A t \in Types :
        /\ SF_vars(Deliver(t))
        /\ WF_vars(\E i \in Ids(t) : Acknowledge(t, i))
        /\ WF_vars(BrokerCancels(t))
        /\ WF_vars(TimerStep(t))
        /\ WF_vars(MainCancelReturns(t))
    /\ \A p \in Closers : WF_vars(CloseReturns(p))
    /\ WF_vars(Check)
    /\ WF_vars(RecoveryStep)
    /\ WF_vars(MainStep)

FairSpec == Spec /\ Fairness

-----------------------------------------------------------------------------
(* Properties. *)

(***************************************************************************)
(* The active consumers metric counts the registered tags, although a      *)
(* timer, the recovery and main() may all cancel and close at once and     *)
(* each adjusts it (_cancel_consumer, close_rabbitmq_connection,           *)
(* _register_consumer).                                                    *)
(***************************************************************************)
GaugeMatchesTags == gauge = Cardinality(consumer_tags)

(***************************************************************************)
(* A tag whose subscription is gone silences the starvation alarm and the  *)
(* idle check of its type, so somebody must be about to clear it: the      *)
(* cancel that ended it, a close under way, or a requested recovery.       *)
(***************************************************************************)
NoGhostConsumer ==
    main = "running" =>
        \A t \in consumer_tags : subscribed[t] = none =>
            \/ timer[t] = "cancelling"
            \/ \E p \in Closers : closing[p] # "no"
            \/ recovery_requested

(***************************************************************************)
(* A subscription is always on the transport the handles name, and known   *)
(* by its tag or about to be: otherwise nothing could ever cancel it and   *)
(* it would swallow deliveries (close_rabbitmq_connection forgets handles  *)
(* and tags only after a confirmed close).                                 *)
(***************************************************************************)
NoLostSubscription ==
    main \in {"consuming", "registering", "running"} =>
        \A t \in Types : subscribed[t] # none =>
            /\ subscribed[t] = active_connection
            /\ \/ t \in consumer_tags
               \/ "registering" \in {recovery, main} /\ t = DATA_TYPES[next]
               \/ recovery = "failing" \/ recovery_requested

(***************************************************************************)
(* While the recovery builds its new transport no older closer forgets or  *)
(* replaces it: _recover_consumers cancels every timer before it connects. *)
(* This needs a long grace delay: a timer set by the new transport itself  *)
(* may fire sooner and close it, and the recovery's next call then fails.  *)
(***************************************************************************)
RecoveryOwnsTransport ==
    recovery \in {"declaring", "consuming", "registering"} =>
        active_connection = temp /\ active_channel = temp

(***************************************************************************)
(* The exit status tells the supervisor whether to restart (restart:       *)
(* on-failure): the process ends with EXIT_OK only when it was asked to,   *)
(* and with EXIT_STARTUP_FAILED only when it never served every type.      *)
(***************************************************************************)
ExitIsHonest ==
    /\ exit_status = "EXIT_OK" => shutdown
    /\ exit_status = "EXIT_STARTUP_FAILED" => consumer_tags # Types

(***************************************************************************)
(* Startup ends: the service comes to serve every type, or the process     *)
(* exits, however often the broker refuses the connection (main).          *)
(***************************************************************************)
StartupDecides == <>(main \notin {"starting", "waiting", "connecting", "consuming", "registering"})

(* The process was asked to stop, or is gone *)
Ending == shutdown \/ main = "stopped"

(***************************************************************************)
(* A requested recovery is attempted, and gets past closing what the old   *)
(* transport left: the checker honours the request even with every tag     *)
(* present and every type complete, and a close that fails is tried again. *)
(***************************************************************************)
RequestServed == recovery_requested ~> (recovery = "connecting" \/ Ending)

(***************************************************************************)
(* The starvation alarm works: the messages of an incomplete type are      *)
(* consumed in the end, although its consumer was cancelled, never         *)
(* registered, or lost with its transport by a close that failed or by a   *)
(* recovery that did.  (The broker ends no subscription by itself here.)   *)
(***************************************************************************)
IncompleteTypeServed ==
    \A t \in Types :
        (t \notin completed_files /\ At(t, "ready") # {})
            ~> (t \in completed_files \/ At(t, "ready") = {} \/ Ending)

(***************************************************************************)
(* After every stream was consumed and the connection closed, the checker  *)
(* restores the consumers when new work appears.  (While a sibling keeps   *)
(* the connection open no gate of the checker sees such work.)             *)
(***************************************************************************)
NewWorkServed ==
    \A t \in Types :
        (active_connection = none /\ At(t, "ready") # {})
            ~> (t \in consumer_tags \/ At(t, "ready") = {} \/ Ending)

(***************************************************************************)
(* The process exits after a signal, whatever cancel or close hangs and    *)
(* whatever the recovery was doing.                                        *)
(***************************************************************************)
ShutdownCompletes == shutdown ~> main = "stopped"

(***************************************************************************)
(* What docs/consumer-cancellation.md says: "Consumers stop after          *)
(* completed streams".                                                     *)
(***************************************************************************)
ConsumersStop ==
    \A t \in Types :
        t \in completed_files ~> (t \notin completed_files \/ t \notin consumer_tags \/ Ending)

(***************************************************************************)
(* What the comment in _recover_consumers says: "Only un-complete a type   *)
(* that actually has a backlog, so genuinely-finished types stay marked    *)
(* complete".                                                              *)
(***************************************************************************)
UncompletedOnlyWithBacklog ==
    [][\A t \in completed_files \ completed_files' :
        \/ shutdown
        \/ \E i \in Ids(t) : place'[t][i] \in {"ready"} \cup Transports]_vars
=============================================================================
