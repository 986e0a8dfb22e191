-------------------------- MODULE ConnectionStatus --------------------------
(***************************************************************************)
(* What a RemoteClient promises those who watch it: the ConnectionState    *)
(* that connection_state() shows the title bar and the projects, and the   *)
(* Disconnected event they act upon.  Nothing of attempts, tasks, proxies  *)
(* or heartbeats is visible here; RemoteClient is shown to implement it.   *)
(***************************************************************************)

VARIABLES
    status,  \* connection_state()
    told     \* RemoteClientEvent::Disconnected was emitted

watched == <<status, told>>

ConnectionStates ==
    {"Connecting", "Connected", "HeartbeatMissed", "Reconnecting", "Disconnected"}

Init == status = "Connecting" /\ told = FALSE

Moves(from, to) == status \in from /\ status' = to /\ UNCHANGED told

(* The first connection is made.                                           *)
Connect == Moves({"Connecting"}, "Connected")
(* The remote is slow to answer, and answers after all.                    *)
Miss == Moves({"Connected"}, "HeartbeatMissed")
Recover == Moves({"HeartbeatMissed"}, "Connected")
(* A connection that was there is lost, and won back.                      *)
Lose == Moves({"Connected", "HeartbeatMissed"}, "Reconnecting")
Regain == Moves({"Reconnecting"}, "Connected")
(* The user, or a first connection that fails, ends it without an event.   *)
Close == Moves(ConnectionStates, "Disconnected")
(* The client gives up and says so; a client that was closed may still.    *)
GiveUp == status # "Connecting" /\ status' = "Disconnected" /\ told' = TRUE

Next == Connect \/ Miss \/ Recover \/ Lose \/ Regain \/ Close \/ GiveUp

Spec == Init /\ [][Next]_watched
=============================================================================
