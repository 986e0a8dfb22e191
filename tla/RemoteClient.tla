----------------------------- MODULE RemoteClient -----------------------------
(***************************************************************************)
(* The life of one remote connection as RemoteClient (remote_client.rs)     *)
(* sees it: the first connection, the monitor that awaits the proxy         *)
(* process, the heartbeat loop, the reconnect task with its attempts, and   *)
(* shutdown.  All of it runs on the main thread, so one action here is what *)
(* happens between two awaits; the tasks interleave freely.                 *)
(*                                                                          *)
(* Dropping a Task cancels it: a state that is replaced or taken takes its  *)
(* multiplex_task (the monitor, which owns the proxy) and its               *)
(* heartbeat_task with it.                                                  *)
(***************************************************************************)
EXTENDS Naturals

CONSTANTS
    MaxReconnectAttempts,  \* MAX_RECONNECT_ATTEMPTS
    MaxMissedHeartbeats,   \* MAX_MISSED_HEARTBEATS
    DebugActions           \* whether the remote_debug actions may be invoked

ASSUME ConstantsAssumption ==
    /\ MaxReconnectAttempts \in Nat
    /\ MaxMissedHeartbeats \in Nat \ {0}
    /\ DebugActions \in BOOLEAN

VARIABLES
    state,         \* the State, or "taken" while the Option is None
    attempts,      \* attempts of the running or just failed reconnect
    disconnected,  \* whether RemoteClientEvent::Disconnected was emitted
    setup,         \* where RemoteClient::new is
    task,          \* where the reconnect task is
    io,            \* the proxy process: what the io_task will say
    replies,       \* handshake replies read from the current connection
    monitor,       \* whether a monitor awaits the io_task
    heartbeat,     \* where the heartbeat loop is
    timer,         \* whether keepalive_timer is armed
    missed,        \* the loop's missed_heartbeats
    activity,      \* items in the connection_activity channel
    shutdown,      \* whether shutdown_processes was called, and ended
    unwrappedNone  \* whether state.take().unwrap() found None

client == <<state, attempts, disconnected>>
connection == <<io, replies, monitor>>
beat == <<heartbeat, timer, missed, activity>>
vars == <<client, setup, task, connection, beat, shutdown, unwrappedNone>>

States == {"Connecting", "Connected", "HeartbeatMissed", "Reconnecting",
           "ReconnectFailed", "ReconnectExhausted", "ServerNotRunning", "taken"}

(* One slot and one per sender: channel(1), cloned once for stdout. *)
ActivityCapacity == 3

(* The activity senders live in the io_task. *)
ActivityOpen == io \in {"running", "silent"}

Init ==
    /\ state = "Connecting"
    /\ attempts = 0
    /\ disconnected = FALSE
    /\ setup = "starting"
    /\ task = "none"
    /\ io = "running"
    /\ replies = 0
    /\ monitor = FALSE
    /\ heartbeat = "off"
    /\ timer = FALSE
    /\ missed = 0
    /\ activity = 0
    /\ shutdown = "no"
    /\ unwrappedNone = FALSE

-----------------------------------------------------------------------------
(* State changes.                                                           *)

(* Mutant: a reconnect is accepted while one is under way. *)
CanReconnectAlways == state # "taken"

CanReconnect == state \in {"Connected", "HeartbeatMissed", "ReconnectFailed"}
IsReconnecting == state = "Reconnecting"

(* set_state: exhaustion and a server that is gone are reported. *)
SetState(s) ==
    /\ state' = s
    /\ disconnected' =
          (disconnected \/ s \in {"ReconnectExhausted", "ServerNotRunning"})

(* The tasks of a state, or of a result, that is dropped. *)
DropTasks ==
    /\ io' = "none"
    /\ monitor' = FALSE
    /\ heartbeat' = "off"
    /\ UNCHANGED <<replies, timer, missed, activity>>

(* Mutant: the attempts are counted, the limit is not looked at. *)
StartAttemptUnlimited(before) ==
    /\ DropTasks
    /\ attempts' = before + 1
    /\ SetState("Reconnecting")
    /\ task' = "killing"

(* Mutant: the failed attempt is not counted. *)
StartAttemptUncounted(before) ==
    /\ DropTasks
    /\ attempts' = before
    /\ SetState("Reconnecting")
    /\ task' = "killing"

(* reconnect(), once can_reconnect holds, with the attempts it starts from. *)
StartAttempt(before) ==
    /\ DropTasks
    /\ attempts' = before + 1
    /\ IF before + 1 > MaxReconnectAttempts
       THEN SetState("ReconnectExhausted") /\ task' = "none"
       ELSE SetState("Reconnecting") /\ task' = "killing"

AttemptsOf(s) == IF s = "ReconnectFailed" THEN attempts ELSE 0

-----------------------------------------------------------------------------
(* RemoteClient::new.                                                       *)

(* wait_for_remote_started resolves; the monitor starts, the ping is sent. *)
SetupStarted ==
    /\ setup = "starting"
    /\ replies >= 1
    /\ setup' = "pinging"
    /\ monitor' = TRUE
    /\ UNCHANGED <<client, task, io, replies, beat, shutdown, unwrappedNone>>

(* A new heartbeat loop: the timer runs, nothing was missed. *)
StartHeartbeat ==
    /\ heartbeat' = "waiting"
    /\ timer' = TRUE
    /\ missed' = 0

(* The ping is answered: Connected, whatever the state was. *)
SetupDone ==
    /\ setup = "pinging"
    /\ replies = 2
    /\ setup' = "done"
    /\ state' = "Connected"
    /\ StartHeartbeat
    /\ UNCHANGED <<attempts, disconnected, task, connection, activity, shutdown,
                   unwrappedNone>>

(* A timeout, an error or a cancellation: the entity is dropped. *)
SetupFailed ==
    /\ setup \in {"starting", "pinging"}
    /\ setup' = "failed"
    /\ state' = "taken"
    /\ shutdown' = "done"
    /\ DropTasks
    /\ UNCHANGED <<attempts, disconnected, task, unwrappedNone>>

-----------------------------------------------------------------------------
(* The proxy process and the network.                                       *)

AwaitsReplies == setup \in {"starting", "pinging"} \/ task \in {"handshake", "resync"}

(* stdout_task reads an envelope: activity, then the incoming queue. *)
ServerSpeaks ==
    /\ io = "running"
    /\ activity' = IF activity < ActivityCapacity THEN activity + 1 ELSE activity
    /\ \/ AwaitsReplies /\ replies < 2 /\ replies' = replies + 1
       \/ UNCHANGED replies
    /\ UNCHANGED <<client, setup, task, io, monitor, heartbeat, timer, missed,
                   shutdown, unwrappedNone>>

(* The connection stalls without closing, recovers, or the proxy exits. *)
IoChanges ==
    /\ \/ io = "running" /\ io' \in {"silent", "died"}
       \/ io = "silent" /\ io' \in {"running", "died"}
    /\ UNCHANGED <<client, setup, task, replies, monitor, beat, shutdown,
                   unwrappedNone>>

(* A proxy started to reconnect finds no server and exits with code 90. *)
ServerGone ==
    /\ task \in {"handshake", "resync"}
    /\ io = "running"
    /\ replies = 0
    /\ io' = "notRunning"
    /\ UNCHANGED <<client, setup, task, replies, monitor, beat, shutdown,
                   unwrappedNone>>

(* monitor: the io_task ended.  It calls reconnect, or gives up on a server *)
(* that is not running; either way it is done.                              *)
MonitorReconnects ==
    /\ monitor
    /\ io = "died"
    /\ IF CanReconnect
       THEN StartAttempt(AttemptsOf(state))
       ELSE /\ monitor' = FALSE
            /\ UNCHANGED <<client, task, io, replies, beat>>
    /\ UNCHANGED <<setup, shutdown, unwrappedNone>>

MonitorGivesUp ==
    /\ monitor
    /\ io = "notRunning"
    /\ monitor' = FALSE
    /\ SetState("ServerNotRunning")
    /\ UNCHANGED <<attempts, setup, task, io, replies, beat, shutdown, unwrappedNone>>

-----------------------------------------------------------------------------
(* The reconnect task.                                                      *)

(* remote_connection.kill(). *)
KillOld ==
    /\ task = "killing"
    /\ task' \in {"connecting", "failed"}
    /\ UNCHANGED <<client, setup, connection, beat, shutdown, unwrappedNone>>

(* pool.connect and start_proxy. *)
ConnectNew ==
    /\ task = "connecting"
    /\ \/ /\ task' = "handshake"
          /\ io' = "running"
          /\ replies' = 0
          /\ activity' = 0
          /\ monitor' = TRUE
       \/ /\ task' = "failed"
          /\ UNCHANGED <<connection, activity>>
    /\ UNCHANGED <<client, setup, heartbeat, timer, missed, shutdown, unwrappedNone>>

HandshakeAcked ==
    /\ task = "handshake"
    /\ replies >= 1
    /\ task' = "resync"
    /\ UNCHANGED <<client, setup, connection, beat, shutdown, unwrappedNone>>

ResyncDone ==
    /\ task = "resync"
    /\ replies = 2
    /\ task' = "connected"
    /\ StartHeartbeat
    /\ UNCHANGED <<client, setup, connection, activity, shutdown, unwrappedNone>>

(* A timeout, or the incoming queue closed: the proxy goes with the attempt. *)
AttemptFailed ==
    /\ task \in {"handshake", "resync"}
    /\ task' = "failed"
    /\ DropTasks
    /\ UNCHANGED <<client, setup, shutdown, unwrappedNone>>

(* Mutant: the result is applied without looking at the state. *)
ApplyConnectedBlindly ==
    /\ task = "connected"
    /\ task' = "none"
    /\ state' = "Connected"
    /\ UNCHANGED <<attempts, disconnected, setup, connection, beat, shutdown,
                   unwrappedNone>>

(* The result counts only if the state still is Reconnecting. *)
ApplyConnected ==
    /\ task = "connected"
    /\ task' = "none"
    /\ \/ /\ IsReconnecting
          /\ state' = "Connected"
          /\ UNCHANGED <<connection, beat>>
       \/ /\ ~ IsReconnecting
          /\ DropTasks
          /\ UNCHANGED state
    /\ UNCHANGED <<attempts, disconnected, setup, shutdown, unwrappedNone>>

(* Mutant: the failure is logged and nothing follows. *)
ApplyFailedGivesUp ==
    /\ task = "failed"
    /\ task' = "none"
    /\ UNCHANGED <<client, setup, connection, beat, shutdown, unwrappedNone>>

(* A failed attempt becomes ReconnectFailed and the next one starts at once. *)
ApplyFailed ==
    /\ task = "failed"
    /\ \/ /\ IsReconnecting
          /\ StartAttempt(attempts)
       \/ /\ ~ IsReconnecting
          /\ task' = "none"
          /\ UNCHANGED <<client, connection, beat>>
    /\ UNCHANGED <<setup, shutdown, unwrappedNone>>

-----------------------------------------------------------------------------
(* The heartbeat loop.                                                      *)

(* Mutant: a recovery makes any state Connected. *)
AfterHeartbeatAnyState(n) ==
    IF n > 0 THEN IF state = "Connected" THEN "HeartbeatMissed" ELSE state
    ELSE "Connected"

(* handle_heartbeat_result with n missed; n = 0 is a recovery. *)
AfterHeartbeat(n) ==
    IF n > 0 THEN IF state = "Connected" THEN "HeartbeatMissed" ELSE state
    ELSE IF state = "HeartbeatMissed" THEN "Connected" ELSE state

(* Something arrived between two pings. *)
HeartbeatActivity ==
    /\ heartbeat = "waiting"
    /\ activity > 0
    /\ activity' = activity - 1
    /\ missed' = 0
    /\ timer' = TRUE
    /\ IF missed = 0
       THEN UNCHANGED <<client, unwrappedNone>>
       ELSE /\ unwrappedNone' = (unwrappedNone \/ state = "taken")
            /\ SetState(AfterHeartbeat(0))
            /\ UNCHANGED attempts
    /\ UNCHANGED <<setup, task, connection, heartbeat, shutdown>>

(* The activity channel is closed: the loop stops. *)
HeartbeatStops ==
    /\ heartbeat = "waiting"
    /\ activity = 0
    /\ ~ ActivityOpen
    /\ heartbeat' = "off"
    /\ UNCHANGED <<client, setup, task, connection, timer, missed, activity,
                   shutdown, unwrappedNone>>

(* keepalive_timer fires and a ping is sent. *)
HeartbeatPings ==
    /\ heartbeat = "waiting"
    /\ activity = 0
    /\ ActivityOpen
    /\ timer
    /\ timer' = FALSE
    /\ heartbeat' = "pinging"
    /\ UNCHANGED <<client, setup, task, connection, missed, activity, shutdown,
                   unwrappedNone>>

(* Any activity, or a closed channel, counts as an answer.  With nothing    *)
(* missed before, the loop continues without arming the timer again.        *)
HeartbeatAnswered ==
    /\ heartbeat = "pinging"
    /\ activity > 0 \/ ~ ActivityOpen
    /\ heartbeat' = "waiting"
    /\ activity' = IF activity > 0 THEN activity - 1 ELSE 0
    /\ missed' = 0
    /\ IF missed = 0
       THEN UNCHANGED <<client, timer, unwrappedNone>>
       ELSE /\ unwrappedNone' = (unwrappedNone \/ state = "taken")
            /\ SetState(AfterHeartbeat(0))
            /\ timer' = TRUE
            /\ UNCHANGED attempts
    /\ UNCHANGED <<setup, task, connection, shutdown>>

(* Mutant: the timer is not armed again after a miss. *)
HeartbeatMissesUntimed ==
    /\ heartbeat = "pinging"
    /\ activity = 0
    /\ ActivityOpen
    /\ state' = AfterHeartbeat(missed + 1)
    /\ heartbeat' = "waiting"
    /\ missed' = IF missed < MaxMissedHeartbeats THEN missed + 1 ELSE missed
    /\ UNCHANGED <<attempts, disconnected, setup, task, connection, timer, activity,
                   shutdown, unwrappedNone>>

(* HEARTBEAT_TIMEOUT without an answer; after MaxMissedHeartbeats the loop  *)
(* ends in a reconnect, if the state allows one.                            *)
HeartbeatMisses ==
    /\ heartbeat = "pinging"
    /\ activity = 0
    /\ ActivityOpen
    /\ unwrappedNone' = (unwrappedNone \/ state = "taken")
    /\ IF missed + 1 < MaxMissedHeartbeats
       THEN /\ SetState(AfterHeartbeat(missed + 1))
            /\ heartbeat' = "waiting"
            /\ missed' = missed + 1
            /\ timer' = TRUE
            /\ UNCHANGED <<attempts, task, connection, activity>>
       ELSE \/ /\ AfterHeartbeat(missed + 1) \in {"HeartbeatMissed", "ReconnectFailed"}
               /\ StartAttempt(AttemptsOf(AfterHeartbeat(missed + 1)))
            \/ /\ AfterHeartbeat(missed + 1) \notin {"HeartbeatMissed", "ReconnectFailed"}
               /\ heartbeat' = "off"
               /\ UNCHANGED <<client, task, connection, timer, missed, activity>>
    /\ UNCHANGED <<setup, shutdown>>

-----------------------------------------------------------------------------
(* Shutdown and the debug actions.                                          *)

(* shutdown_processes takes the state.  Connected hands its tasks to a      *)
(* future that outlives the call by 50 ms; any other state drops them.      *)
ShutdownProcesses ==
    /\ setup = "done"
    /\ state # "taken"
    /\ state' = "taken"
    /\ IF state = "Connected"
       THEN shutdown' = "draining" /\ UNCHANGED <<connection, beat>>
       ELSE /\ shutdown' = "done"
            /\ IF state = "HeartbeatMissed" THEN DropTasks
               ELSE UNCHANGED <<connection, beat>>
    /\ UNCHANGED <<attempts, disconnected, setup, task, unwrappedNone>>

ShutdownDrained ==
    /\ shutdown = "draining"
    /\ shutdown' = "done"
    /\ DropTasks
    /\ UNCHANGED <<client, setup, task, unwrappedNone>>

(* force_heartbeat_timeout(n): also takes a state that is not Connected. *)
ForceHeartbeatTimeout(n) ==
    /\ DebugActions
    /\ setup = "done"
    /\ IF state = "Connected" THEN StartAttempt(n)
       ELSE /\ state' = "taken"
            /\ IF state = "HeartbeatMissed" THEN DropTasks
               ELSE UNCHANGED <<connection, beat>>
            /\ UNCHANGED <<attempts, disconnected, task>>
    /\ UNCHANGED <<setup, shutdown, unwrappedNone>>

-----------------------------------------------------------------------------
Setup == SetupStarted \/ SetupDone \/ SetupFailed
Monitor == MonitorReconnects \/ MonitorGivesUp
ReconnectTask ==
    \/ KillOld \/ ConnectNew \/ HandshakeAcked \/ ResyncDone \/ AttemptFailed
    \/ ApplyConnected \/ ApplyFailed
Heartbeat ==
    \/ HeartbeatActivity \/ HeartbeatStops \/ HeartbeatPings
    \/ HeartbeatAnswered \/ HeartbeatMisses

Next ==
    \/ Setup \/ Monitor \/ ReconnectTask \/ Heartbeat
    \/ ServerSpeaks \/ IoChanges \/ ServerGone
    \/ ShutdownProcesses \/ ShutdownDrained
    \/ \E n \in {0, MaxReconnectAttempts} : ForceHeartbeatTimeout(n)

Spec == Init /\ [][Next]_vars

(* Timers fire and ready tasks run.  Nothing is assumed of the network, the *)
(* server or the user, and so nothing of the two steps of the reconnect     *)
(* task that wait for the transport without a timeout, KillOld and          *)
(* ConnectNew (ssh may ask for a password).                                 *)
Fairness ==
    /\ WF_vars(Setup)
    /\ WF_vars(Monitor)
    /\ WF_vars(HandshakeAcked \/ ResyncDone \/ AttemptFailed \/ ApplyConnected \/ ApplyFailed)
    /\ WF_vars(Heartbeat)
    /\ WF_vars(ShutdownDrained)

FairSpec == Spec /\ Fairness

-----------------------------------------------------------------------------
(* Every variable has its type. *)
TypeOK ==
    /\ state \in States
    /\ attempts \in 0 .. MaxReconnectAttempts + 1
    /\ disconnected \in BOOLEAN
    /\ setup \in {"starting", "pinging", "done", "failed"}
    /\ task \in {"none", "killing", "connecting", "handshake", "resync",
                 "connected", "failed"}
    /\ io \in {"none", "running", "silent", "died", "notRunning"}
    /\ replies \in 0 .. 2
    /\ monitor \in BOOLEAN
    /\ heartbeat \in {"off", "waiting", "pinging"}
    /\ timer \in BOOLEAN
    /\ missed \in 0 .. MaxMissedHeartbeats
    /\ activity \in 0 .. ActivityCapacity
    /\ shutdown \in {"no", "draining", "done"}
    /\ unwrappedNone \in BOOLEAN

(* The states a client works in, or is working to get back to. *)
Lively == {"Connected", "HeartbeatMissed", "Reconnecting"}

(* How the state, the reconnect task and the two ends of the client's life  *)
(* go together: RemoteClient::new works alone; a Reconnecting client has    *)
(* attempts left and a task that will move it on, and no order of results,  *)
(* monitors and heartbeats leaves it there with nobody at work; a connected *)
(* client has no such task; a failed attempt never shows, since the next    *)
(* one starts in the same update; a client that was shut down or reported   *)
(* Disconnected is not lively.                                              *)
LifeCycle ==
    /\ setup \in {"starting", "pinging"} =>
          /\ state = "Connecting"
          /\ task = "none"
          /\ io # "notRunning"
          /\ heartbeat = "off"
          /\ ~ disconnected
          /\ shutdown = "no"
    /\ state = "Connecting" => setup \in {"starting", "pinging"}
    /\ state = "Reconnecting" =>
          task # "none" /\ attempts \in 1 .. MaxReconnectAttempts
    /\ state \in {"Connected", "HeartbeatMissed"} => task = "none"
    /\ state # "ReconnectFailed"
    /\ disconnected \/ shutdown # "no" => state \notin Lively

(* A client that was shut down, or that reported Disconnected, never comes  *)
(* back to life, although the reconnect task that was then under way may    *)
(* still succeed.                                                           *)
NoResurrection ==
    [][disconnected \/ shutdown # "no" => state' \notin Lively]_vars

(* reconnect() never starts an attempt while another one is under way:      *)
(* monitor, heartbeat and the failed attempt itself may all call it.        *)
OneAttemptAtATime ==
    [][task' = "killing" => task \in {"none", "failed", "killing"}]_vars

(* Every reconnect comes to an end (connected, exhausted or not running),   *)
(* unless the transport keeps an attempt waiting for ever: no reply that is *)
(* missing and no number of failures keeps it going.                        *)
ReconnectSettles ==
    [](state = "Reconnecting" =>
          <>(state # "Reconnecting") \/ <>[](task \in {"killing", "connecting"}))

(* A missed heartbeat is followed by a recovery or by a reconnect.          *)
MissedHeartbeatResolves == state = "HeartbeatMissed" ~> state # "HeartbeatMissed"

(* connection_state: what the client shows. *)
connection_state ==
    IF state \in {"ReconnectExhausted", "ServerNotRunning", "taken"} THEN "Disconnected"
    ELSE IF state = "ReconnectFailed" THEN "Reconnecting"
    ELSE state

Watched == INSTANCE ConnectionStatus WITH status <- connection_state, told <- disconnected

(* What is seen of the client is the simple life ConnectionStatus promises: *)
(* no attempt, late result, monitor or heartbeat shows as anything else, a  *)
(* Disconnected client never shows another state, and the event comes only  *)
(* with that state.                                                         *)
ShowsStatus == Watched!Spec

(* The state is lost by shutdown alone: force_heartbeat_timeout ignores a   *)
(* client that is not Connected.                                            *)
StateLostOnlyByShutdown == state = "taken" => shutdown # "no"

(* A client that calls itself connected over a proxy that died is about to  *)
(* be told: its monitor has not run yet.                                    *)
DeathNoticed ==
    state \in {"Connected", "HeartbeatMissed"} /\ io = "died" => monitor

(* A connection that goes silent does not stay Connected: heartbeats are    *)
(* missed and the client reconnects.                                        *)
SilenceNoticed == ~ <>[](state = "Connected" /\ io = "silent")
=============================================================================
