--------------------------- MODULE ConnectionPool ---------------------------
(***************************************************************************)
(* The connection pool: all windows open on one host share one connection  *)
(* (an SSH master), which the pool knows only through weak references.     *)
(*                                                                         *)
(* Source: crates/remote/src/remote_client.rs (ConnectionPool, and how     *)
(* RemoteClient uses it when it opens and reconnects), kill and            *)
(* has_been_killed of crates/remote/src/transport/ssh.rs.  One entry of    *)
(* the pool is modelled, the options of one host.  Nobody owns a           *)
(* connection: it lives as long as some client, or a finished attempt that *)
(* some client still waits on, refers to it, and any client may kill it.   *)
(***************************************************************************)
EXTENDS Integers, FiniteSets

CONSTANTS
    Clients,       \* the RemoteClients of one host
    MaxAttempts,   \* MAX_RECONNECT_ATTEMPTS
    MaxFaults      \* bound: links that drop, attempts and handshakes that fail

ASSUME BoundsAssumption ==
    MaxAttempts \in Nat /\ MaxFaults \in Nat

ASSUME ClientsAssumption == IsFiniteSet(Clients)

(* A connection has the number of the task that made it.  A client refers  *)
(* to two at most, its connection and its attempt at the next one, so      *)
(* there is always a free number; a number nobody refers to is used again. *)
Ids == 1..(2 * Cardinality(Clients) + 1)
None == 0

VARIABLES
    entry,   \* ConnectionPool.connections[options]
    task,    \* the connecting tasks
    link,    \* the connections the tasks made
    client,  \* the clients
    faults   \* faults so far

vars == <<entry, task, link, client, faults>>

Entry(kind, id) == [kind |-> kind, id |-> id]
NoEntry == Entry("None", None)
Entries == [kind : {"None", "Connecting", "Connected"}, id : Ids \cup {None}]

(* closed:     no window                                                   *)
(* waiting:    awaits the Shared task `task`                               *)
(* proxying:   has `link`, starts the proxy and waits for the handshake    *)
(* connected                                                               *)
(* killing:    the reconnect task is about to kill `link`                  *)
(* killed:     the kill is done, the pool is next                          *)
(* exhausted:  State::ReconnectExhausted                                   *)
Steps == {"closed", "waiting", "proxying", "connected", "killing", "killed",
          "exhausted"}
Records == [step : Steps, link : Ids \cup {None}, task : Ids \cup {None},
            attempts : Nat]     \* 0 unless it reconnects
Closed == [step |-> "closed", link |-> None, task |-> None, attempts |-> 0]

Init ==
    /\ entry = NoEntry
    /\ task = [i \in Ids |-> "unborn"]
    /\ link = [i \in Ids |-> "none"]
    /\ client = [c \in Clients |-> Closed]
    /\ faults = 0

-----------------------------------------------------------------------------
(* Reference counts.                                                       *)

(* Some client has a clone of the Shared task: WeakShared::upgrade.        *)
Held(i) == \E c \in Clients : client[c].task = i

(* Weak<dyn RemoteConnection>::upgrade.                                    *)
Referenced(i) ==
    \/ \E c \in Clients : client[c].link = i
    \/ Held(i) /\ task[i] = "ok"

(* The test of connect, and has_active_connection.                         *)
has_active_connection ==
    /\ entry.kind = "Connected"
    /\ Referenced(entry.id)
    /\ link[entry.id] # "killed"

Free == {i \in Ids : ~\E c \in Clients : client[c].task = i \/ client[c].link = i}
NextId == CHOOSE i \in Free : TRUE

-----------------------------------------------------------------------------
(* ConnectionPool::connect for client c.                                   *)

(* Mutant: the weak task is not upgraded, its entry is trusted. *)
JoinDead(c) ==
    /\ entry.kind = "Connecting"
    /\ client[c].task = None
    /\ client' = [client EXCEPT ![c] = [@ EXCEPT !.step = "waiting", !.task = entry.id]]
    /\ UNCHANGED <<entry, task, link>>

Join(c) ==
    /\ entry.kind = "Connecting"
    /\ Held(entry.id)
    /\ client' = [client EXCEPT ![c] = [@ EXCEPT !.step = "waiting", !.task = entry.id]]
    /\ UNCHANGED <<entry, task, link>>

(* Task::ready(Ok(remote)), as if it were the task that made it: the next   *)
(* poll has the connection.                                                 *)
Reuse(c) ==
    /\ has_active_connection
    /\ client' = [client EXCEPT ![c] = [@ EXCEPT !.step = "waiting", !.task = entry.id]]
    /\ UNCHANGED <<entry, task, link>>

(* Mutant: only the finished connection is entered in the pool. *)
StartFreshUnentered(c) ==
    /\ ~has_active_connection
    /\ ~(entry.kind = "Connecting" /\ Held(entry.id))
    /\ entry' = NoEntry
    /\ task' = [task EXCEPT ![NextId] = "running"]
    /\ link' = [link EXCEPT ![NextId] = "none"]
    /\ client' = [client EXCEPT ![c] = [@ EXCEPT !.step = "waiting", !.task = NextId]]

(* Mutant: a second attempt is started beside the first. *)
StartFreshBeside(c) ==
    /\ ~has_active_connection
    /\ entry' = Entry("Connecting", NextId)
    /\ task' = [task EXCEPT ![NextId] = "running"]
    /\ link' = [link EXCEPT ![NextId] = "none"]
    /\ client' = [client EXCEPT ![c] = [@ EXCEPT !.step = "waiting", !.task = NextId]]

(* No entry, or a dead one: a new task, which the caller alone holds.      *)
StartFresh(c) ==
    /\ ~has_active_connection
    /\ ~(entry.kind = "Connecting" /\ Held(entry.id))
    /\ entry' = Entry("Connecting", NextId)
    /\ task' = [task EXCEPT ![NextId] = "running"]
    /\ link' = [link EXCEPT ![NextId] = "none"]
    /\ client' = [client EXCEPT ![c] = [@ EXCEPT !.step = "waiting", !.task = NextId]]

PoolConnect(c) == Join(c) \/ Reuse(c) \/ StartFresh(c)

-----------------------------------------------------------------------------
(* The connecting task.                                                    *)

TaskConnects(i) ==
    /\ task[i] = "running"
    /\ entry' = Entry("Connected", i)
    /\ task' = [task EXCEPT ![i] = "ok"]
    /\ link' = [link EXCEPT ![i] = "up"]
    /\ UNCHANGED <<client, faults>>

TaskFails(i) ==
    /\ task[i] = "running"
    /\ faults < MaxFaults
    /\ faults' = faults + 1
    /\ entry' = NoEntry
    /\ task' = [task EXCEPT ![i] = "failed"]
    /\ UNCHANGED <<link, client>>

(* The master process dies by itself; killed stays false.                  *)
LinkDrops(i) ==
    /\ link[i] = "up"
    /\ faults < MaxFaults
    /\ faults' = faults + 1
    /\ link' = [link EXCEPT ![i] = "down"]
    /\ UNCHANGED <<entry, task, client>>

-----------------------------------------------------------------------------
(* The clients.                                                            *)

Open(c) ==
    /\ client[c].step = "closed"
    /\ PoolConnect(c)
    /\ UNCHANGED faults

(* Mutant: the attempts are counted down. *)
ReconnectingDown(c) ==
    [client[c] EXCEPT !.step = "killing", !.task = None, !.attempts = @ - 1]

(* RemoteClient::reconnect, as far as its first await.                     *)
Reconnecting(c) ==
    IF client[c].attempts + 1 > MaxAttempts
    THEN [Closed EXCEPT !.step = "exhausted"]
    ELSE [client[c] EXCEPT !.step = "killing", !.task = None, !.attempts = @ + 1]

(* A first connection that fails leaves no window.  A failed attempt to    *)
(* reconnect starts the next one in the same update, unless the client was *)
(* shut down under it.                                                     *)
AfterFailure(c) ==
    IF client[c].attempts = 0 THEN {Closed} ELSE {Reconnecting(c), Closed}

TakeResult(c) ==
    LET t == client[c].task
    IN  /\ client[c].step = "waiting"
        /\ \/ /\ task[t] = "ok"
              /\ client' = [client EXCEPT ![c] = [@ EXCEPT !.step = "proxying",
                                                           !.link = t, !.task = None]]
           \/ /\ task[t] = "failed"
              /\ \E after \in AfterFailure(c) : client' = [client EXCEPT ![c] = after]
        /\ UNCHANGED <<entry, task, link, faults>>

(* start_proxy and the handshake, over a master that is there.             *)
Handshake(c) ==
    /\ client[c].step = "proxying"
    /\ link[client[c].link] = "up"
    /\ client' = [client EXCEPT ![c] = [@ EXCEPT !.step = "connected", !.attempts = 0]]
    /\ UNCHANGED <<entry, task, link, faults>>

(* The master is gone, or the handshake times out.  A failed reconnect     *)
(* keeps the connection, to kill it first thing in the next attempt.       *)
HandshakeFails(c) ==
    /\ client[c].step = "proxying"
    /\ \/ link[client[c].link] # "up" /\ UNCHANGED faults
       \/ /\ link[client[c].link] = "up" /\ faults < MaxFaults
          /\ faults' = faults + 1
    /\ \E after \in AfterFailure(c) : client' = [client EXCEPT ![c] = after]
    /\ UNCHANGED <<entry, task, link>>

(* The proxy died with its master, or heartbeats were missed.              *)
LoseConnection(c) ==
    /\ client[c].step = "connected"
    /\ \/ link[client[c].link] # "up" /\ UNCHANGED faults
       \/ /\ link[client[c].link] = "up" /\ faults < MaxFaults
          /\ faults' = faults + 1
    /\ client' = [client EXCEPT ![c] = Reconnecting(c)]
    /\ UNCHANGED <<entry, task, link>>

(* kill, whoever else uses the connection; waiting for the process may     *)
(* fail.                                                                   *)
Kill(c) ==
    /\ client[c].step = "killing"
    /\ link' = [link EXCEPT ![client[c].link] = "killed"]
    /\ \/ /\ client' = [client EXCEPT ![c].step = "killed"]
          /\ UNCHANGED faults
       \/ /\ faults < MaxFaults
          /\ faults' = faults + 1
          /\ \E after \in AfterFailure(c) : client' = [client EXCEPT ![c] = after]
    /\ UNCHANGED <<entry, task>>

(* The killed connection stays referenced until the next one is there.     *)
ConnectAgain(c) ==
    /\ client[c].step = "killed"
    /\ PoolConnect(c)
    /\ UNCHANGED faults

(* The user closes the window, or cancels the connecting dialog, which     *)
(* drops the clone of the task, and with the last clone the task.  A       *)
(* reconnect task is detached and goes on; what it brings a client that    *)
(* was shut down is dropped as it ends (here, or in AfterFailure).         *)
Close(c) ==
    /\ \/ client[c].step \in {"connected", "exhausted"}
       \/ client[c].step \in {"waiting", "proxying"} /\ client[c].attempts = 0
    /\ client' = [client EXCEPT ![c] = Closed]
    /\ task' = [i \in Ids |->
         IF task[i] = "running" /\ ~\E d \in Clients \ {c} : client[d].task = i
         THEN "dropped" ELSE task[i]]
    /\ UNCHANGED <<entry, link, faults>>

-----------------------------------------------------------------------------
ClientStep(c) ==
    \/ TakeResult(c) \/ Handshake(c) \/ HandshakeFails(c) \/ LoseConnection(c)
    \/ Kill(c) \/ ConnectAgain(c)

Next ==
    \/ \E i \in Ids : TaskConnects(i) \/ TaskFails(i) \/ LinkDrops(i)
    \/ \E c \in Clients : Open(c) \/ ClientStep(c) \/ Close(c)

Spec == Init /\ [][Next]_vars

(* Tasks run.  Of the transport it is assumed that an attempt to connect   *)
(* ends, and a kill: ConnectTimeout is given to ssh only where the user    *)
(* has set one, and a password prompt and the kill have none.              *)
Fairness ==
    /\ \A i \in Ids : WF_vars(TaskConnects(i) \/ TaskFails(i))
    /\ \A c \in Clients :
         /\ WF_vars(TakeResult(c) \/ ConnectAgain(c) \/ Kill(c))
         /\ WF_vars(Handshake(c) \/ HandshakeFails(c))
         /\ WF_vars(LoseConnection(c) /\ link[client[c].link] # "up")
FairSpec == Spec /\ Fairness

-----------------------------------------------------------------------------
TypeOK ==
    /\ entry \in Entries
    /\ task \in [Ids -> {"unborn", "running", "dropped", "ok", "failed"}]
    /\ link \in [Ids -> {"none", "up", "down", "killed"}]
    /\ client \in [Clients -> Records]
    /\ faults \in 0..MaxFaults

(* The debug_assert at the end of the connecting task: a task that can     *)
(* still end finds the pool's entry to be Connecting, and its own, so that *)
(* what it enters or removes belongs to nobody else.                       *)
TaskOwnsEntry ==
    \A i \in Ids : task[i] = "running" => entry = Entry("Connecting", i)

(* The windows of a host share one connection: there are never two in use  *)
(* that nobody has killed, although clients open, close, cancel, kill and  *)
(* reconnect in any order and the pool forgets what nobody refers to.      *)
OneConnection ==
    \A i, j \in Ids :
        /\ Referenced(i) /\ link[i] \in {"up", "down"}
        /\ Referenced(j) /\ link[j] \in {"up", "down"}
        => i = j

(* A client that has to reconnect ends connected, exhausted or closed,     *)
(* whoever else waits on the same task or kills the connection it got.     *)
EveryoneSettles ==
    \A c \in Clients :
        client[c].step \in {"waiting", "killing"}
            ~> client[c].step \in {"connected", "exhausted", "closed"}
=============================================================================
