------------------------- MODULE RemoteClientProofs -------------------------
(***************************************************************************)
(* The life cycle of RemoteClient, for every number of attempts and every   *)
(* number of tolerated heartbeats: the invariant LifeCycle, and from it the *)
(* two action properties.                                                   *)
(***************************************************************************)
EXTENDS RemoteClient, TLAPS

(* TypeOK in two halves, because the provers treat flags and other values   *)
(* differently.                                                             *)
ValuesOK ==
    /\ state \in States
    /\ attempts \in 0 .. MaxReconnectAttempts + 1
    /\ setup \in {"starting", "pinging", "done", "failed"}
    /\ task \in {"none", "killing", "connecting", "handshake", "resync",
                 "connected", "failed"}
    /\ io \in {"none", "running", "silent", "died", "notRunning"}
    /\ replies \in 0 .. 2
    /\ heartbeat \in {"off", "waiting", "pinging"}
    /\ missed \in 0 .. MaxMissedHeartbeats
    /\ activity \in 0 .. ActivityCapacity
    /\ shutdown \in {"no", "draining", "done"}
FlagsOK ==
    /\ disconnected \in BOOLEAN
    /\ monitor \in BOOLEAN
    /\ timer \in BOOLEAN
    /\ unwrappedNone \in BOOLEAN

(* The inductive invariant. *)
Inv == ValuesOK /\ FlagsOK /\ LifeCycle

(* The two halves make up the type invariant. *)
LEMMA TypeHalves == TypeOK <=> ValuesOK /\ FlagsOK
  BY Zenon DEF TypeOK, ValuesOK, FlagsOK

(* RemoteClient::new starts in a state that satisfies it. *)
LEMMA InvInit == Init => Inv
  <1> SUFFICES ASSUME Init PROVE Inv
    OBVIOUS
  <1>1. ValuesOK
    BY ConstantsAssumption DEF Init, ValuesOK, States, ActivityCapacity
  <1>2. FlagsOK
    BY Zenon DEF Init, FlagsOK
  <1>3. LifeCycle
    BY DEF Init, LifeCycle, Lively
  <1> QED
    BY <1>1, <1>2, <1>3 DEF Inv

(* An attempt that reconnect() starts, from a client that is still alive    *)
(* and has no other attempt under way.                                      *)
LEMMA StartAttemptInv ==
  ASSUME Inv, NEW before \in 0 .. MaxReconnectAttempts, StartAttempt(before),
         setup \notin {"starting", "pinging"}, ~ disconnected, shutdown = "no",
         UNCHANGED <<setup, shutdown>>, unwrappedNone' \in BOOLEAN
  PROVE  Inv'
  <1> USE ConstantsAssumption DEF Inv
  <1>1. ValuesOK'
    BY DEF ValuesOK, StartAttempt, SetState, DropTasks, States, ActivityCapacity
  <1>2. FlagsOK'
    <2>1. disconnected' \in BOOLEAN
      BY Zenon DEF StartAttempt, SetState
    <2>2. monitor' \in BOOLEAN /\ timer' \in BOOLEAN
      BY Zenon DEF FlagsOK, StartAttempt, DropTasks
    <2> QED
      BY <2>1, <2>2 DEF FlagsOK
  <1>3. LifeCycle'
    <2>1. CASE before + 1 > MaxReconnectAttempts
      BY <2>1 DEF LifeCycle, Lively, StartAttempt, SetState
    <2>2. CASE ~ (before + 1 > MaxReconnectAttempts)
      <3>1. state' = "Reconnecting" /\ task' = "killing"
        BY <2>2, Zenon DEF StartAttempt, SetState
      <3>2. attempts' \in 1 .. MaxReconnectAttempts
        BY <2>2 DEF StartAttempt
      <3>3. ~ disconnected'
        BY <2>2, Zenon DEF StartAttempt, SetState
      <3> QED
        BY <3>1, <3>2, <3>3 DEF LifeCycle
    <2> QED
      BY <2>1, <2>2
  <1> QED
    BY <1>1, <1>2, <1>3

(* A client that may reconnect is past RemoteClient::new, alive, and has no *)
(* attempt under way.                                                       *)
LEMMA ReconnectReady ==
  ASSUME Inv, state \in Lively
  PROVE  /\ setup \notin {"starting", "pinging"}
         /\ ~ disconnected
         /\ shutdown = "no"
  BY DEF Inv, ValuesOK, LifeCycle, Lively

(* Every step of every task preserves it. *)
LEMMA InvStep == Inv /\ [Next]_vars => Inv'
  <1> SUFFICES ASSUME Inv, [Next]_vars PROVE Inv'
    OBVIOUS
  <1> USE ConstantsAssumption DEF Inv, client, connection, beat
  <1>1. CASE SetupStarted
    <2>1. ValuesOK'
      BY <1>1 DEF ValuesOK, LifeCycle, States, ActivityCapacity, SetupStarted
    <2>2. FlagsOK'
      BY <1>1, Zenon DEF FlagsOK, SetupStarted
    <2>3. LifeCycle'
      BY <1>1 DEF ValuesOK, LifeCycle, Lively, SetupStarted
    <2> QED
      BY <2>1, <2>2, <2>3
  <1>2. CASE SetupDone
    <2>1. ValuesOK'
      BY <1>2 DEF ValuesOK, LifeCycle, States, ActivityCapacity, SetupDone, StartHeartbeat
    <2>2. FlagsOK'
      BY <1>2, Zenon DEF FlagsOK, SetupDone, StartHeartbeat
    <2>3. LifeCycle'
      BY <1>2 DEF ValuesOK, LifeCycle, Lively, SetupDone, StartHeartbeat
    <2> QED
      BY <2>1, <2>2, <2>3
  <1>3. CASE SetupFailed
    <2>1. ValuesOK'
      BY <1>3 DEF ValuesOK, LifeCycle, States, ActivityCapacity, SetupFailed, DropTasks
    <2>2. FlagsOK'
      BY <1>3, Zenon DEF FlagsOK, SetupFailed, DropTasks
    <2>3. LifeCycle'
      BY <1>3 DEF ValuesOK, LifeCycle, Lively, SetupFailed, DropTasks
    <2> QED
      BY <2>1, <2>2, <2>3
  <1>4. CASE MonitorReconnects
    <2>1. CASE CanReconnect
      <3>1. state \in Lively /\ AttemptsOf(state) = 0
        BY <2>1 DEF CanReconnect, Lively, AttemptsOf, LifeCycle
      <3>2. StartAttempt(0) /\ UNCHANGED <<setup, shutdown, unwrappedNone>>
        BY <1>4, <2>1, <3>1 DEF MonitorReconnects
      <3> QED
        BY <3>1, <3>2, ReconnectReady, StartAttemptInv DEF FlagsOK
    <2>2. CASE ~ CanReconnect
      <3>1. ValuesOK'
        BY <1>4, <2>2 DEF MonitorReconnects, ValuesOK
      <3>2. FlagsOK'
        BY <1>4, <2>2, Zenon DEF MonitorReconnects, FlagsOK
      <3>3. LifeCycle'
        BY <1>4, <2>2 DEF MonitorReconnects, LifeCycle
      <3> QED
        BY <3>1, <3>2, <3>3
    <2> QED
      BY <2>1, <2>2
  <1>5. CASE MonitorGivesUp
    <2>1. ValuesOK'
      BY <1>5 DEF ValuesOK, LifeCycle, States, ActivityCapacity, MonitorGivesUp, SetState
    <2>2. FlagsOK'
      BY <1>5, Zenon DEF FlagsOK, MonitorGivesUp, SetState
    <2>3. LifeCycle'
      BY <1>5 DEF ValuesOK, LifeCycle, Lively, MonitorGivesUp, SetState
    <2> QED
      BY <2>1, <2>2, <2>3
  <1>6. CASE KillOld
    <2>1. ValuesOK'
      BY <1>6 DEF ValuesOK, LifeCycle, States, ActivityCapacity, KillOld
    <2>2. FlagsOK'
      BY <1>6, Zenon DEF FlagsOK, KillOld
    <2>3. LifeCycle'
      BY <1>6 DEF ValuesOK, LifeCycle, Lively, KillOld
    <2> QED
      BY <2>1, <2>2, <2>3
  <1>7. CASE ConnectNew
    <2>1. ValuesOK'
      BY <1>7 DEF ValuesOK, LifeCycle, States, ActivityCapacity, ConnectNew
    <2>2. FlagsOK'
      BY <1>7, Zenon DEF FlagsOK, ConnectNew
    <2>3. LifeCycle'
      BY <1>7 DEF ValuesOK, LifeCycle, Lively, ConnectNew
    <2> QED
      BY <2>1, <2>2, <2>3
  <1>8. CASE HandshakeAcked
    <2>1. ValuesOK'
      BY <1>8 DEF ValuesOK, LifeCycle, States, ActivityCapacity, HandshakeAcked
    <2>2. FlagsOK'
      BY <1>8, Zenon DEF FlagsOK, HandshakeAcked
    <2>3. LifeCycle'
      BY <1>8 DEF ValuesOK, LifeCycle, Lively, HandshakeAcked
    <2> QED
      BY <2>1, <2>2, <2>3
  <1>9. CASE ResyncDone
    <2>1. ValuesOK'
      BY <1>9 DEF ValuesOK, LifeCycle, States, ActivityCapacity, ResyncDone, StartHeartbeat
    <2>2. FlagsOK'
      BY <1>9, Zenon DEF FlagsOK, ResyncDone, StartHeartbeat
    <2>3. LifeCycle'
      BY <1>9 DEF ValuesOK, LifeCycle, Lively, ResyncDone, StartHeartbeat
    <2> QED
      BY <2>1, <2>2, <2>3
  <1>10. CASE AttemptFailed
    <2>1. ValuesOK'
      BY <1>10 DEF ValuesOK, LifeCycle, States, ActivityCapacity, AttemptFailed, DropTasks
    <2>2. FlagsOK'
      BY <1>10, Zenon DEF FlagsOK, AttemptFailed, DropTasks
    <2>3. LifeCycle'
      BY <1>10 DEF ValuesOK, LifeCycle, Lively, AttemptFailed, DropTasks
    <2> QED
      BY <2>1, <2>2, <2>3
  <1>11. CASE ApplyConnected
    <2>1. ValuesOK'
      BY <1>11 DEF ValuesOK, LifeCycle, States, ActivityCapacity, ApplyConnected, IsReconnecting, DropTasks
    <2>2. FlagsOK'
      BY <1>11, Zenon DEF FlagsOK, ApplyConnected, IsReconnecting, DropTasks
    <2>3. LifeCycle'
      BY <1>11 DEF ValuesOK, LifeCycle, Lively, ApplyConnected, IsReconnecting, DropTasks
    <2> QED
      BY <2>1, <2>2, <2>3
  <1>12. CASE ApplyFailed
    <2>1. CASE IsReconnecting
      <3>1. state \in Lively /\ attempts \in 0 .. MaxReconnectAttempts
        BY <2>1 DEF IsReconnecting, Lively, LifeCycle
      <3>2. StartAttempt(attempts) /\ UNCHANGED <<setup, shutdown, unwrappedNone>>
        BY <1>12, <2>1 DEF ApplyFailed
      <3> QED
        BY <3>1, <3>2, ReconnectReady, StartAttemptInv DEF FlagsOK
    <2>2. CASE ~ IsReconnecting
      BY <1>12, <2>2 DEF ApplyFailed, IsReconnecting, ValuesOK, FlagsOK, LifeCycle
    <2> QED
      BY <2>1, <2>2
  <1>13. CASE HeartbeatActivity
    <2>1. ValuesOK'
      BY <1>13 DEF ValuesOK, LifeCycle, States, ActivityCapacity, HeartbeatActivity, SetState, AfterHeartbeat
    <2>2. FlagsOK'
      BY <1>13, Zenon DEF FlagsOK, HeartbeatActivity, SetState, AfterHeartbeat
    <2>3. LifeCycle'
      BY <1>13 DEF ValuesOK, LifeCycle, Lively, HeartbeatActivity, SetState, AfterHeartbeat
    <2> QED
      BY <2>1, <2>2, <2>3
  <1>14. CASE HeartbeatStops
    <2>1. ValuesOK'
      BY <1>14 DEF ValuesOK, LifeCycle, States, ActivityCapacity, HeartbeatStops
    <2>2. FlagsOK'
      BY <1>14, Zenon DEF FlagsOK, HeartbeatStops
    <2>3. LifeCycle'
      BY <1>14 DEF ValuesOK, LifeCycle, Lively, HeartbeatStops
    <2> QED
      BY <2>1, <2>2, <2>3
  <1>15. CASE HeartbeatPings
    <2>1. ValuesOK'
      BY <1>15 DEF ValuesOK, LifeCycle, States, ActivityCapacity, HeartbeatPings
    <2>2. FlagsOK'
      BY <1>15, Zenon DEF FlagsOK, HeartbeatPings
    <2>3. LifeCycle'
      BY <1>15 DEF ValuesOK, LifeCycle, Lively, HeartbeatPings
    <2> QED
      BY <2>1, <2>2, <2>3
  <1>16. CASE HeartbeatAnswered
    <2>1. ValuesOK'
      BY <1>16 DEF ValuesOK, LifeCycle, States, ActivityCapacity, HeartbeatAnswered, SetState, AfterHeartbeat
    <2>2. FlagsOK'
      BY <1>16, Zenon DEF FlagsOK, HeartbeatAnswered, SetState, AfterHeartbeat
    <2>3. LifeCycle'
      BY <1>16 DEF ValuesOK, LifeCycle, Lively, HeartbeatAnswered, SetState, AfterHeartbeat
    <2> QED
      BY <2>1, <2>2, <2>3
  <1>17. CASE HeartbeatMisses
    <2> DEFINE after == AfterHeartbeat(missed + 1)
    <2>1. CASE missed + 1 < MaxMissedHeartbeats
      <3>1. ValuesOK'
        BY <1>17, <2>1 DEF HeartbeatMisses, SetState, AfterHeartbeat, ValuesOK, LifeCycle, States
      <3>2. FlagsOK'
        BY <1>17, <2>1, Zenon DEF HeartbeatMisses, SetState, FlagsOK
      <3>3. LifeCycle'
        BY <1>17, <2>1 DEF HeartbeatMisses, SetState, AfterHeartbeat, ValuesOK, LifeCycle, Lively
      <3> QED
        BY <3>1, <3>2, <3>3
    <2>2. CASE ~ (missed + 1 < MaxMissedHeartbeats) /\ after \in {"HeartbeatMissed", "ReconnectFailed"}
      <3>1. state \in Lively /\ AttemptsOf(after) = 0
        BY <2>2 DEF AfterHeartbeat, Lively, AttemptsOf, ValuesOK, LifeCycle
      <3>2. StartAttempt(0) /\ UNCHANGED <<setup, shutdown>>
        BY <1>17, <2>2, <3>1 DEF HeartbeatMisses
      <3>3. unwrappedNone' \in BOOLEAN
        BY <1>17, Zenon DEF HeartbeatMisses
      <3> QED
        BY <3>1, <3>2, <3>3, ReconnectReady, StartAttemptInv
    <2>3. CASE ~ (missed + 1 < MaxMissedHeartbeats) /\ after \notin {"HeartbeatMissed", "ReconnectFailed"}
      <3>1. UNCHANGED <<state, attempts, disconnected, setup, task, io, replies, monitor,
                        timer, missed, activity, shutdown>> /\ heartbeat' = "off"
        BY <1>17, <2>3 DEF HeartbeatMisses
      <3>2. unwrappedNone' \in BOOLEAN
        BY <1>17, Zenon DEF HeartbeatMisses
      <3> QED
        BY <3>1, <3>2 DEF ValuesOK, FlagsOK, LifeCycle
    <2> QED
      BY <2>1, <2>2, <2>3
  <1>18. CASE ServerSpeaks
    <2>1. ValuesOK'
      BY <1>18 DEF ValuesOK, LifeCycle, States, ActivityCapacity, ServerSpeaks, AwaitsReplies
    <2>2. FlagsOK'
      BY <1>18, Zenon DEF FlagsOK, ServerSpeaks, AwaitsReplies
    <2>3. LifeCycle'
      BY <1>18 DEF ValuesOK, LifeCycle, Lively, ServerSpeaks, AwaitsReplies
    <2> QED
      BY <2>1, <2>2, <2>3
  <1>19. CASE IoChanges
    <2>1. ValuesOK'
      BY <1>19 DEF ValuesOK, LifeCycle, States, ActivityCapacity, IoChanges
    <2>2. FlagsOK'
      BY <1>19, Zenon DEF FlagsOK, IoChanges
    <2>3. LifeCycle'
      BY <1>19 DEF ValuesOK, LifeCycle, Lively, IoChanges
    <2> QED
      BY <2>1, <2>2, <2>3
  <1>20. CASE ServerGone
    <2>1. ValuesOK'
      BY <1>20 DEF ValuesOK, LifeCycle, States, ActivityCapacity, ServerGone
    <2>2. FlagsOK'
      BY <1>20, Zenon DEF FlagsOK, ServerGone
    <2>3. LifeCycle'
      BY <1>20 DEF ValuesOK, LifeCycle, Lively, ServerGone
    <2> QED
      BY <2>1, <2>2, <2>3
  <1>21. CASE ShutdownProcesses
    <2>1. ValuesOK'
      BY <1>21 DEF ValuesOK, LifeCycle, States, ActivityCapacity, ShutdownProcesses, DropTasks
    <2>2. FlagsOK'
      BY <1>21, Zenon DEF FlagsOK, ShutdownProcesses, DropTasks
    <2>3. LifeCycle'
      BY <1>21 DEF ValuesOK, LifeCycle, Lively, ShutdownProcesses, DropTasks
    <2> QED
      BY <2>1, <2>2, <2>3
  <1>22. CASE ShutdownDrained
    <2>1. ValuesOK'
      BY <1>22 DEF ValuesOK, LifeCycle, States, ActivityCapacity, ShutdownDrained, DropTasks
    <2>2. FlagsOK'
      BY <1>22, Zenon DEF FlagsOK, ShutdownDrained, DropTasks
    <2>3. LifeCycle'
      BY <1>22 DEF ValuesOK, LifeCycle, Lively, ShutdownDrained, DropTasks
    <2> QED
      BY <2>1, <2>2, <2>3
  <1>23. ASSUME NEW n \in {0, MaxReconnectAttempts}, ForceHeartbeatTimeout(n)
        PROVE  Inv'
    <2>1. CASE state = "Connected"
      <3>1. StartAttempt(n) /\ UNCHANGED <<setup, shutdown, unwrappedNone>>
        BY <1>23, <2>1 DEF ForceHeartbeatTimeout
      <3>2. n \in 0 .. MaxReconnectAttempts
        BY <1>23
      <3> QED
        BY <2>1, <3>1, <3>2, ReconnectReady, StartAttemptInv DEF Lively, FlagsOK
    <2>2. CASE state # "Connected"
      <3>1. ValuesOK'
        BY <1>23, <2>2 DEF ForceHeartbeatTimeout, DropTasks, ValuesOK, States
      <3>2. FlagsOK'
        BY <1>23, <2>2, Zenon DEF ForceHeartbeatTimeout, DropTasks, FlagsOK
      <3>3. LifeCycle'
        BY <1>23, <2>2 DEF ForceHeartbeatTimeout, DropTasks, ValuesOK, LifeCycle, Lively
      <3> QED
        BY <3>1, <3>2, <3>3
    <2> QED
      BY <2>1, <2>2
  <1>24. CASE UNCHANGED vars
    BY <1>24 DEF vars, ValuesOK, FlagsOK, LifeCycle
  <1> QED
    BY <1>1, <1>2, <1>3, <1>4, <1>5, <1>6, <1>7, <1>8, <1>9, <1>10, <1>11, <1>12, <1>13, <1>14, <1>15, <1>16, <1>17, <1>18, <1>19, <1>20, <1>21, <1>22, <1>23, <1>24
    DEF Next, Setup, Monitor, ReconnectTask, Heartbeat

(* A Reconnecting client has a task and attempts left, whatever the order   *)
(* of the tasks' steps.                                                     *)
THEOREM LifeCycleCorrect == Spec => [](TypeOK /\ LifeCycle)
  <1>1. Init => Inv
    BY InvInit
  <1>2. Inv /\ [Next]_vars => Inv'
    BY InvStep
  <1>3. Inv => TypeOK /\ LifeCycle
    BY TypeHalves DEF Inv
  <1> QED
    BY <1>1, <1>2, <1>3, PTL DEF Spec

(* The end of a client's life is never taken back. *)
LEMMA EndStays ==
  ASSUME [Next]_vars
  PROVE  /\ disconnected => disconnected'
         /\ shutdown # "no" => shutdown' # "no"
  <1> USE DEF client
  <1>1. CASE Setup
    BY <1>1 DEF Setup, SetupStarted, SetupDone, SetupFailed
  <1>2. CASE Monitor
    BY <1>2, Zenon DEF Monitor, MonitorReconnects, MonitorGivesUp, StartAttempt, SetState
  <1>3. CASE ReconnectTask
    <2>1. CASE ApplyFailed
      <3>1. shutdown' = shutdown
        BY <2>1 DEF ApplyFailed
      <3>2. CASE IsReconnecting
        BY <2>1, <3>1, <3>2, Zenon DEF ApplyFailed, StartAttempt, SetState
      <3>3. CASE ~ IsReconnecting
        BY <2>1, <3>1, <3>3 DEF ApplyFailed
      <3> QED
        BY <3>2, <3>3
    <2>2. CASE ~ ApplyFailed
      BY <1>3, <2>2 DEF ReconnectTask, KillOld, ConnectNew, HandshakeAcked, ResyncDone,
         AttemptFailed, ApplyConnected
    <2> QED
      BY <2>1, <2>2
  <1>4. CASE Heartbeat
    BY <1>4, Zenon DEF Heartbeat, HeartbeatActivity, HeartbeatStops, HeartbeatPings,
       HeartbeatAnswered, HeartbeatMisses, StartAttempt, SetState
  <1>5. CASE ServerSpeaks \/ IoChanges \/ ServerGone
    BY <1>5 DEF ServerSpeaks, IoChanges, ServerGone
  <1>6. CASE ShutdownProcesses \/ ShutdownDrained
    BY <1>6 DEF ShutdownProcesses, ShutdownDrained
  <1>7. ASSUME NEW n \in {0, MaxReconnectAttempts}, ForceHeartbeatTimeout(n)
        PROVE  /\ disconnected => disconnected'
               /\ shutdown # "no" => shutdown' # "no"
    BY <1>7, Zenon DEF ForceHeartbeatTimeout, StartAttempt, SetState
  <1>8. CASE UNCHANGED vars
    BY <1>8 DEF vars
  <1> QED
    BY <1>1, <1>2, <1>3, <1>4, <1>5, <1>6, <1>7, <1>8 DEF Next

(* A client that was shut down or reported Disconnected never becomes       *)
(* lively again, even when an attempt that was under way still succeeds.    *)
THEOREM NoResurrectionCorrect == Spec => NoResurrection
  <1>1. Inv /\ [Next]_vars =>
           [disconnected \/ shutdown # "no" => state' \notin Lively]_vars
    BY InvStep, EndStays, Zenon DEF Inv, LifeCycle
  <1> QED
    BY InvInit, InvStep, <1>1, PTL DEF Spec, NoResurrection

(* At most one attempt to reconnect is under way at any time. *)
THEOREM OneAttemptCorrect == Spec => OneAttemptAtATime
  <1>1. ASSUME Inv, [Next]_vars, task' = "killing"
        PROVE  task \in {"none", "failed", "killing"}
    <2> USE DEF Inv, ValuesOK, LifeCycle
    <2>1. CASE Setup
      BY <1>1, <2>1 DEF Setup, SetupStarted, SetupDone, SetupFailed
    <2>2. CASE Monitor
      BY <1>1, <2>2 DEF Monitor, MonitorReconnects, MonitorGivesUp, CanReconnect
    <2>3. CASE ReconnectTask
      BY <1>1, <2>3 DEF ReconnectTask, KillOld, ConnectNew, HandshakeAcked, ResyncDone,
         AttemptFailed, ApplyConnected, ApplyFailed
    <2>4. CASE Heartbeat
      BY <1>1, <2>4 DEF Heartbeat, HeartbeatActivity, HeartbeatStops, HeartbeatPings,
         HeartbeatAnswered, HeartbeatMisses, AfterHeartbeat
    <2>5. CASE ServerSpeaks \/ IoChanges \/ ServerGone
      BY <1>1, <2>5 DEF ServerSpeaks, IoChanges, ServerGone
    <2>6. CASE ShutdownProcesses \/ ShutdownDrained
      BY <1>1, <2>6 DEF ShutdownProcesses, ShutdownDrained
    <2>7. ASSUME NEW n \in {0, MaxReconnectAttempts}, ForceHeartbeatTimeout(n)
          PROVE  task \in {"none", "failed", "killing"}
      BY <1>1, <2>7 DEF ForceHeartbeatTimeout
    <2>8. CASE UNCHANGED vars
      BY <1>1, <2>8 DEF vars
    <2> QED
      BY <1>1, <2>1, <2>2, <2>3, <2>4, <2>5, <2>6, <2>7, <2>8 DEF Next
  <1>2. Inv /\ [Next]_vars =>
           [task' = "killing" => task \in {"none", "failed", "killing"}]_vars
    BY <1>1
  <1> QED
    BY InvInit, InvStep, <1>2, PTL DEF Spec, OneAttemptAtATime

(* Type correctness on its own. *)
THEOREM TypeCorrect == Spec => []TypeOK
  <1> QED
    BY LifeCycleCorrect, PTL

-----------------------------------------------------------------------------
(* The client implements ConnectionStatus.                                  *)

(* What the watchers may see of a step. *)
Seen == [Watched!Next]_(Watched!watched)

(* A step that leaves state and event alone shows nothing. *)
LEMMA NothingSeen ==
  ASSUME state' = state, disconnected' = disconnected
  PROVE  Seen
  BY DEF Seen, Watched!watched, connection_state

(* The start of an attempt shows as a connection lost, or as giving up. *)
LEMMA StartAttemptSeen ==
  ASSUME Inv, NEW before \in 0 .. MaxReconnectAttempts, StartAttempt(before),
         state \in {"Connected", "HeartbeatMissed", "Reconnecting"}
  PROVE  Seen
  <1>1. CASE before + 1 > MaxReconnectAttempts
    <2>1. state' = "ReconnectExhausted"
      BY <1>1 DEF StartAttempt, SetState
    <2>2. disconnected' = TRUE
      BY <1>1, <2>1, Zenon DEF StartAttempt, SetState
    <2>3. Watched!GiveUp
      BY <2>1, <2>2 DEF Watched!GiveUp, connection_state
    <2> QED
      BY <2>3 DEF Seen, Watched!Next
  <1>2. CASE ~ (before + 1 > MaxReconnectAttempts)
    <2>1. state' = "Reconnecting"
      BY <1>2 DEF StartAttempt, SetState
    <2>2. disconnected' = disconnected
      <3>1. disconnected' = (disconnected \/ FALSE)
        BY <1>2, Zenon DEF StartAttempt, SetState
      <3> QED
        BY <3>1, Zenon DEF Inv, FlagsOK
    <2>3. CASE state = "Reconnecting"
      BY <2>1, <2>2, <2>3, NothingSeen
    <2>4. CASE state \in {"Connected", "HeartbeatMissed"}
      <3>1. Watched!Lose
        BY <2>1, <2>2, <2>4 DEF Watched!Lose, Watched!Moves, connection_state
      <3> QED
        BY <3>1 DEF Seen, Watched!Next
    <2> QED
      BY <2>3, <2>4
  <1> QED
    BY <1>1, <1>2

(* Ends, with or without an event. *)
LEMMA EndSeen ==
  ASSUME Inv, connection_state' = "Disconnected",
         \/ disconnected' = disconnected
         \/ disconnected' = TRUE /\ state # "Connecting"
  PROVE  Seen
  <1>1. connection_state \in Watched!ConnectionStates
    BY DEF Inv, ValuesOK, States, connection_state, Watched!ConnectionStates
  <1>2. CASE disconnected' = disconnected
    <2>1. Watched!Close
      BY <1>1, <1>2 DEF Watched!Close, Watched!Moves
    <2> QED
      BY <2>1 DEF Seen, Watched!Next
  <1>3. CASE disconnected' = TRUE /\ state # "Connecting"
    <2>1. connection_state # "Connecting"
      BY <1>3 DEF connection_state
    <2>2. Watched!GiveUp
      BY <1>3, <2>1, Zenon DEF Watched!GiveUp
    <2> QED
      BY <2>2 DEF Seen, Watched!Next
  <1> QED
    BY <1>2, <1>3

(* The heartbeat loop's verdict shows as Miss, Recover or nothing. *)
LEMMA HeartbeatSeen ==
  ASSUME Inv, NEW n \in Nat, SetState(AfterHeartbeat(n))
  PROVE  Seen
  <1>1. CASE state \in {"ReconnectExhausted", "ServerNotRunning"}
    <2>1. AfterHeartbeat(n) = state /\ state' = state
      BY <1>1 DEF AfterHeartbeat, SetState
    <2>2. disconnected' = TRUE
      BY <1>1, <2>1, Zenon DEF SetState
    <2>3. connection_state' = "Disconnected" /\ state # "Connecting"
      BY <1>1, <2>1 DEF connection_state
    <2> QED
      BY <2>2, <2>3, EndSeen
  <1>2. CASE state \notin {"ReconnectExhausted", "ServerNotRunning"}
    <2>1. AfterHeartbeat(n) \notin {"ReconnectExhausted", "ServerNotRunning"}
      BY <1>2 DEF AfterHeartbeat
    <2>2. disconnected' = disconnected
      BY <2>1, Zenon DEF SetState, Inv, FlagsOK
    <2>3. CASE state' = state
      BY <2>2, <2>3, NothingSeen
    <2>4. CASE state = "Connected" /\ state' = "HeartbeatMissed"
      <3>1. Watched!Miss
        BY <2>2, <2>4 DEF Watched!Miss, Watched!Moves, connection_state
      <3> QED
        BY <3>1 DEF Seen, Watched!Next
    <2>5. CASE state = "HeartbeatMissed" /\ state' = "Connected"
      <3>1. Watched!Recover
        BY <2>2, <2>5 DEF Watched!Recover, Watched!Moves, connection_state
      <3> QED
        BY <3>1 DEF Seen, Watched!Next
    <2> QED
      BY <2>3, <2>4, <2>5 DEF SetState, AfterHeartbeat
  <1> QED
    BY <1>1, <1>2

(* Every step of the client shows as a step of ConnectionStatus, or as      *)
(* nothing.                                                                 *)
LEMMA StepSeen == Inv /\ [Next]_vars => Seen
  <1> SUFFICES ASSUME Inv, [Next]_vars PROVE Seen
    OBVIOUS
  <1> USE DEF client
  <1>1. CASE Setup
    <2>1. CASE SetupStarted
      BY <2>1, NothingSeen DEF SetupStarted
    <2>2. CASE SetupDone
      <3>1. state = "Connecting"
        BY <2>2 DEF SetupDone, Inv, LifeCycle
      <3>2. Watched!Connect
        BY <2>2, <3>1 DEF SetupDone, Watched!Connect, Watched!Moves, connection_state
      <3> QED
        BY <3>2 DEF Seen, Watched!Next
    <2>3. CASE SetupFailed
      BY <2>3, EndSeen DEF SetupFailed, connection_state
    <2> QED
      BY <1>1, <2>1, <2>2, <2>3 DEF Setup
  <1>2. CASE Monitor
    <2>1. CASE MonitorReconnects
      <3>1. CASE CanReconnect
        <4>1. state \in {"Connected", "HeartbeatMissed"} /\ AttemptsOf(state) = 0
          BY <3>1 DEF CanReconnect, AttemptsOf, Inv, LifeCycle
        <4>2. 0 \in 0 .. MaxReconnectAttempts /\ StartAttempt(0)
          BY <2>1, <3>1, <4>1, ConstantsAssumption DEF MonitorReconnects
        <4> QED
          BY <4>1, <4>2, StartAttemptSeen
      <3>2. CASE ~ CanReconnect
        BY <2>1, <3>2, NothingSeen DEF MonitorReconnects
      <3> QED
        BY <3>1, <3>2
    <2>2. CASE MonitorGivesUp
      <3>1. state' = "ServerNotRunning"
        BY <2>2 DEF MonitorGivesUp, SetState
      <3>2. disconnected' = TRUE
        BY <2>2, <3>1, Zenon DEF MonitorGivesUp, SetState
      <3>3. state # "Connecting"
        BY <2>2 DEF MonitorGivesUp, Inv, LifeCycle
      <3> QED
        BY <3>1, <3>2, <3>3, EndSeen DEF connection_state
    <2> QED
      BY <1>2, <2>1, <2>2 DEF Monitor
  <1>3. CASE ReconnectTask
    <2>1. CASE ApplyConnected
      <3>1. CASE IsReconnecting /\ state' = "Connected"
        <4>1. Watched!Regain
          BY <2>1, <3>1 DEF ApplyConnected, IsReconnecting, Watched!Regain, Watched!Moves,
             connection_state
        <4> QED
          BY <4>1 DEF Seen, Watched!Next
      <3>2. CASE state' = state
        BY <2>1, <3>2, NothingSeen DEF ApplyConnected
      <3> QED
        BY <2>1, <3>1, <3>2 DEF ApplyConnected
    <2>2. CASE ApplyFailed
      <3>1. CASE IsReconnecting
        <4>1. state = "Reconnecting" /\ attempts \in 0 .. MaxReconnectAttempts
          BY <3>1, ConstantsAssumption DEF IsReconnecting, Inv, LifeCycle
        <4> QED
          BY <2>2, <3>1, <4>1, StartAttemptSeen DEF ApplyFailed
      <3>2. CASE ~ IsReconnecting
        BY <2>2, <3>2, NothingSeen DEF ApplyFailed
      <3> QED
        BY <3>1, <3>2
    <2>3. CASE KillOld \/ ConnectNew \/ HandshakeAcked \/ ResyncDone \/ AttemptFailed
      BY <2>3, NothingSeen DEF KillOld, ConnectNew, HandshakeAcked, ResyncDone, AttemptFailed
    <2> QED
      BY <1>3, <2>1, <2>2, <2>3 DEF ReconnectTask
  <1>4. CASE Heartbeat
    <2>1. CASE HeartbeatActivity \/ HeartbeatAnswered
      <3>1. CASE missed = 0
        BY <2>1, <3>1, NothingSeen DEF HeartbeatActivity, HeartbeatAnswered
      <3>2. CASE missed # 0
        BY <2>1, <3>2, HeartbeatSeen DEF HeartbeatActivity, HeartbeatAnswered
      <3> QED
        BY <3>1, <3>2
    <2>2. CASE HeartbeatStops \/ HeartbeatPings
      BY <2>2, NothingSeen DEF HeartbeatStops, HeartbeatPings
    <2>3. CASE HeartbeatMisses
      <3> DEFINE after == AfterHeartbeat(missed + 1)
      <3>1. missed + 1 \in Nat
        BY ConstantsAssumption DEF Inv, ValuesOK
      <3>2. CASE missed + 1 < MaxMissedHeartbeats
        BY <2>3, <3>1, <3>2, HeartbeatSeen DEF HeartbeatMisses
      <3>3. CASE ~ (missed + 1 < MaxMissedHeartbeats)
        <4>1. CASE after \in {"HeartbeatMissed", "ReconnectFailed"} /\ StartAttempt(AttemptsOf(after))
          <5>1. after = "HeartbeatMissed" /\ state \in {"Connected", "HeartbeatMissed"}
            BY <4>1, <3>1 DEF AfterHeartbeat, Inv, LifeCycle
          <5>2. AttemptsOf(after) = 0 /\ 0 \in 0 .. MaxReconnectAttempts
            BY <5>1, ConstantsAssumption DEF AttemptsOf
          <5> QED
            BY <4>1, <5>1, <5>2, StartAttemptSeen
        <4>2. CASE UNCHANGED client
          BY <4>2, NothingSeen
        <4> QED
          BY <2>3, <3>3, <4>1, <4>2 DEF HeartbeatMisses
      <3> QED
        BY <3>2, <3>3
    <2> QED
      BY <1>4, <2>1, <2>2, <2>3 DEF Heartbeat
  <1>5. CASE ServerSpeaks \/ IoChanges \/ ServerGone
    BY <1>5, NothingSeen DEF ServerSpeaks, IoChanges, ServerGone
  <1>6. CASE ShutdownProcesses
    BY <1>6, EndSeen DEF ShutdownProcesses, connection_state
  <1>7. CASE ShutdownDrained
    BY <1>7, NothingSeen DEF ShutdownDrained
  <1>8. ASSUME NEW n \in {0, MaxReconnectAttempts}, ForceHeartbeatTimeout(n)
        PROVE  Seen
    <2>1. CASE state = "Connected"
      <3>1. n \in 0 .. MaxReconnectAttempts
        BY ConstantsAssumption
      <3> QED
        BY <1>8, <2>1, <3>1, StartAttemptSeen DEF ForceHeartbeatTimeout
    <2>2. CASE state # "Connected"
      BY <1>8, <2>2, EndSeen DEF ForceHeartbeatTimeout, connection_state
    <2> QED
      BY <2>1, <2>2
  <1>9. CASE UNCHANGED vars
    BY <1>9, NothingSeen DEF vars
  <1> QED
    BY <1>1, <1>2, <1>3, <1>4, <1>5, <1>6, <1>7, <1>8, <1>9 DEF Next

(* RemoteClient implements ConnectionStatus, for any limits: what the title *)
(* bar shows follows the simple life, and Disconnected is final.            *)
THEOREM ShowsStatusCorrect == Spec => ShowsStatus
  <1>1. Init => Watched!Init
    BY Zenon DEF Init, Watched!Init, connection_state
  <1> QED
    BY InvInit, InvStep, StepSeen, <1>1, PTL DEF Spec, ShowsStatus, Watched!Spec, Seen
=============================================================================
